---------------------------- MODULE Spec2Model ----------------------------
(***************************************************************************)
(* A model of the ReTrigger cog (src/retrigger/retrigger.py): the in-memory *)
(* trigger index, the durable per-server trigger_list, the startup load,    *)
(* the periodic save loop and the moderator commands that create, edit and  *)
(* remove triggers.                                                         *)
(*                                                                          *)
(* Python dicts are functions with a finite domain (<< >> is the empty      *)
(* dict).  Trigger objects live in a heap and are referred to by their      *)
(* object id, because the index, a suspended command and the save loop may  *)
(* all hold the same object.  Every await of the source is a point where    *)
(* another coroutine may run; an action is one run of a coroutine from one  *)
(* await to the next.                                                       *)
(***************************************************************************)
EXTENDS Integers, Sequences, FiniteSets, TLC

VARIABLES
    triggers,       \* self.triggers: guild id -> (name -> object id)
    heap,           \* the Trigger objects ever constructed, by object id
    store,          \* config.guild(g).trigger_list: guild id -> (name -> json)
    registered,     \* the guild ids config.all_guilds() returns
    lock,           \* holder of the lock of config.guild(g).trigger_list
    saver,          \* the save_loop task: before_loop, loop body, after_loop
    cmds,           \* the command coroutines in flight, by slot
    re_pool,        \* self.re_pool: "open" or "closed"
    unloaded,       \* cog_unload has run
    finalFlushes,   \* number of completed flushes run by after_save_loop
    issued,         \* commands invoked so far, where a specification counts them
    observe,        \* whether this specification records reports in ev
    trigger_timeout,\* self.trigger_timeout: the match timeout in memory
    config,         \* the other settings of Config: the global
                    \* trigger_timeout and every server's bypass flag
    now,            \* the wall clock, in seconds
    ev              \* what the step just taken did and reported

vars == <<triggers, heap, store, registered, lock, saver, cmds, re_pool,
          unloaded, finalFlushes, issued, observe, trigger_timeout, config,
          now, ev>>

(***************************************************************************)
(* Bounds of the model.                                                     *)
(***************************************************************************)
MaxObjs == 2        \* Trigger objects constructed in one behaviour
MaxCmds == 2        \* command coroutines in flight at once
MaxIssued == 2      \* commands invoked one after the other (SpecCmd, SpecRegex)

Guilds == {1, 2}
Names == {"a", "b"}
Slots == 1 .. MaxCmds

\* Users: the bot owner, the owner of every modelled server, two moderators.
BotOwner == "botowner"
GuildOwner == "gowner"
Users == {BotOwner, GuildOwner, "mod1", "mod2"}

\* Regex sources: two that compile and one that does not.
Regexes == {"foo", "bar", "("}

\* The clock when the model begins, and what one tick adds to it.
StartTime == 100
TickSeconds == 5

(***************************************************************************)
(* dict helpers                                                             *)
(***************************************************************************)
Put(d, k, v) == [x \in (DOMAIN d) \cup {k} |-> IF x = k THEN v ELSE d[x]]

Del(d, k) == [x \in (DOMAIN d) \ {k} |-> d[x]]

EmptyDict == << >>

(***************************************************************************)
(* re.compile: succeeds exactly on the sources that are valid patterns.     *)
(* A compiled pattern keeps its source text in .pattern.                    *)
(***************************************************************************)
Compiles(src) == src # "("

re_compile(src) == [pattern |-> src]

(***************************************************************************)
(* The Trigger record.  Trigger.__init__, to_json and from_json live in     *)
(* converters.py; their field list and defaults follow section 3 of the     *)
(* specification and the keyword arguments the commands pass.  created_at  *)
(* (the id of the invoking message) is used for display only and is left    *)
(* out; an object's identity is its place in the heap.                      *)
(***************************************************************************)
\* The last-fire state of a cooldown: a single timestamp ("last": 0) or a
\* list of {"id", "last"} entries, kept here as a dict from id to timestamp
\* ("last": []).
NoLast == [type |-> "none", at |-> 0, entries |-> << >>]

LastSingle(at) == [type |-> "int", at |-> at, entries |-> << >>]

LastPerId(entries) == [type |-> "list", at |-> 0, entries |-> entries]

\* trigger.cooldown = {}
NoCooldown == [time |-> 0, style |-> "", last |-> NoLast]

Trigger(name, regex, response_type, author, text, image, check_edits, multi) ==
    [name |-> name,
     regex |-> re_compile(regex),
     response_type |-> response_type,
     author |-> author,
     enabled |-> TRUE,
     text |-> text,
     image |-> image,
     multi_payload |-> multi,
     cooldown |-> NoCooldown,
     chance |-> 0,
     delete_after |-> 0,
     nsfw |-> FALSE,
     check_edits |-> check_edits,
     ocr_search |-> FALSE,
     read_filenames |-> FALSE,
     ignore_commands |-> FALSE,
     reply |-> "None",
     tts |-> FALSE,
     user_mention |-> TRUE,
     everyone_mention |-> FALSE,
     role_mention |-> FALSE,
     whitelist |-> << >>,
     blacklist |-> << >>]

\* to_json: the record as persisted; the compiled pattern becomes its source.
to_json(t) == [t EXCEPT !.regex = t.regex.pattern]

\* from_json raises when the persisted source no longer compiles.
from_json_ok(j) == Compiles(j.regex)

from_json(j) == [j EXCEPT !.regex = re_compile(j.regex)]

(***************************************************************************)
(* The settings besides the trigger lists, as __init__ registers them: the  *)
(* global trigger_timeout (also kept in self.trigger_timeout) and "bypass"  *)
(* of every server.                                                         *)
(***************************************************************************)
DefaultTimeout == 1

default_global ==
    [trigger_timeout |-> DefaultTimeout, bypass |-> [g \in Guilds |-> FALSE]]

\* The trigger_timeout a previous run of the cog may have persisted.
PersistedTimeouts == {1, 2}

(***************************************************************************)
(* Index helpers                                                            *)
(***************************************************************************)
InIndex(g, n) == g \in DOMAIN triggers /\ n \in DOMAIN triggers[g]

\* A mutation of IndexPut: the entry goes under a fixed key, not the name.
IndexPutFixedKey(idx, g, n, oid) ==
    Put(idx, g, Put(IF g \in DOMAIN idx THEN idx[g] ELSE EmptyDict, "a", oid))

\* self.triggers[g][n] = oid, creating self.triggers[g] when missing
IndexPut(idx, g, n, oid) ==
    Put(idx, g, Put(IF g \in DOMAIN idx THEN idx[g] ELSE EmptyDict, n, oid))

NoEv == [op |-> "", kind |-> "", path |-> "", g |-> 0, name |-> "",
         user |-> "", oid |-> 0, report |-> ""]

\* The record of a step of a command: the command (op, kind), how it was
\* invoked (path), its arguments, the object its trigger argument resolved
\* to (0: none) and what it reported.
Ev(op, kind, path, g, name, user, oid, report) ==
    IF observe
    THEN [op |-> op, kind |-> kind, path |-> path, g |-> g, name |-> name,
          user |-> user, oid |-> oid, report |-> report]
    ELSE NoEv

\* The record of a step of the save_loop task.
TaskEv(op, g, name, report) == Ev(op, "", "", g, name, "", 0, report)

(***************************************************************************)
(* The save_loop task.                                                      *)
(*   pc: "before"   before_save_loop has not read the store yet             *)
(*       "load_guild" / "load_rec"   the two loops of before_save_loop      *)
(*       "crashed"  before_save_loop raised: the task ended                 *)
(*       "sleep"    between two runs of save_loop                           *)
(*       "outer" / "inner"   the two loops of save_all_triggers             *)
(*       "dead"     the loop body raised: the task ended                    *)
(*       "done"     the task ended after a cancellation                     *)
(***************************************************************************)
IdleSaver(pc) ==
    [pc |-> pc,
     data |-> [g \in {} |-> EmptyDict],  \* all_guilds() snapshot
     gleft |-> {},                       \* guilds still to iterate
     cur |-> 0,                          \* guild of the running inner loop
     nleft |-> {},                       \* names of cur still to iterate
     new_trigger |-> 0,                  \* local of before_save_loop (0: unbound)
     tl |-> EmptyDict,                   \* trigger_list inside async with
     tl0 |-> EmptyDict,                  \* its value when the block was entered
     gvisited |-> {},
     nvisited |-> {},
     osize |-> 0,                        \* dict sizes when iteration began
     isize |-> 0,
     error |-> "",                       \* the exception that left the last run
     final |-> FALSE,                    \* running inside after_save_loop
     cancelled |-> FALSE]                \* save_loop.cancel() was delivered

\* A command coroutine: its position and its locals.
NoArg == [n |-> 0, s |-> "", b |-> FALSE]

IdleCmd ==
    [pc |-> "idle", op |-> "", kind |-> "", path |-> "", g |-> 0,
     name |-> "", user |-> "", regex |-> "", ok |-> FALSE,
     arg |-> NoArg,             \* the remaining arguments of an edit command
     oid |-> 0,                 \* the Trigger object the command holds
     tl |-> EmptyDict]          \* its local trigger_list

(***************************************************************************)
(* before_save_loop: the startup load.                                      *)
(***************************************************************************)
LoadBegin ==
    /\ saver.pc = "before"
    /\ saver' = [saver EXCEPT !.pc = "load_guild",
                              !.data = [g \in registered |-> store[g]],
                              !.gleft = registered]
    /\ trigger_timeout' = config.trigger_timeout
    /\ ev' = TaskEv("load_begin", 0, "", "")
    /\ UNCHANGED <<triggers, heap, store, registered, lock, cmds, re_pool,
                   unloaded, finalFlushes, issued, observe, config, now>>

\* for guild, settings in data.items(): self.triggers[guild] = {}
LoadGuild ==
    /\ saver.pc = "load_guild"
    /\ IF saver.gleft = {}
       THEN /\ saver' = [IdleSaver("sleep") EXCEPT
                            !.new_trigger = saver.new_trigger]
            /\ triggers' = triggers
            /\ ev' = TaskEv("load_done", 0, "", "")
       ELSE \E g \in saver.gleft :
            /\ triggers' = Put(triggers, g, EmptyDict)
            /\ saver' = [saver EXCEPT !.pc = "load_rec",
                                      !.gleft = saver.gleft \ {g},
                                      !.cur = g,
                                      !.nleft = DOMAIN saver.data[g]]
            /\ ev' = TaskEv("load_guild", g, "", "")
    /\ UNCHANGED <<heap, store, registered, lock, cmds, re_pool, unloaded,
                   finalFlushes, issued, observe,
                   trigger_timeout, config, now>>

\* One iteration of "for trigger in settings['trigger_list'].values()".
\* new_trigger is assigned only when from_json returns; the line after the
\* try statement reads it whether or not it was assigned this time.
LoadRecord ==
    /\ saver.pc = "load_rec"
    /\ saver.nleft # {}
    /\ Len(heap) < MaxObjs
    /\ \E n \in saver.nleft :
         LET j == saver.data[saver.cur][n]
             ok == from_json_ok(j)
             nt == IF ok THEN Len(heap) + 1 ELSE saver.new_trigger
             heap2 == IF ok THEN Append(heap, from_json(j)) ELSE heap
         IN  IF nt = 0
             THEN \* UnboundLocalError leaves before_save_loop
                  /\ saver' = [saver EXCEPT !.pc = "crashed"]
                  /\ heap' = heap
                  /\ triggers' = triggers
                  /\ ev' = TaskEv("load_rec", saver.cur, n, "crash")
             ELSE /\ heap' = heap2
                  /\ triggers' = IndexPut(triggers, saver.cur, heap2[nt].name, nt)
                  /\ saver' = [saver EXCEPT !.new_trigger = nt,
                                            !.nleft = saver.nleft \ {n}]
                  /\ ev' = TaskEv("load_rec", saver.cur, n, IF ok THEN "loaded" ELSE "logged")
    /\ UNCHANGED <<store, registered, lock, cmds, re_pool, unloaded,
                   finalFlushes, issued, observe,
                   trigger_timeout, config, now>>

LoadGuildEnd ==
    /\ saver.pc = "load_rec"
    /\ saver.nleft = {}
    /\ saver' = [saver EXCEPT !.pc = "load_guild", !.cur = 0]
    /\ ev' = TaskEv("load_guild_end", saver.cur, "", "")
    /\ UNCHANGED <<triggers, heap, store, registered, lock, cmds, re_pool,
                   unloaded, finalFlushes, issued, observe,
                   trigger_timeout, config, now>>

(***************************************************************************)
(* Startup specification: any persisted store whose records sit under      *)
(* their own name, some of them with a source that no longer compiles.      *)
(***************************************************************************)
PersistedRecord(n, r) ==
    to_json(Trigger(n, r, <<"text">>, "mod1", <<"hi">>, "", FALSE, << >>))

\* The trigger_lists a server may have persisted.
PersistedLists ==
    LET lists(S) == [S -> {"foo", "("}]
    IN  { [n \in DOMAIN f |-> PersistedRecord(n, f[n])] :
            f \in UNION { lists(S) : S \in SUBSET Names } }

InitLoad ==
    /\ triggers = [g \in {} |-> EmptyDict]
    /\ heap = << >>
    /\ store \in [Guilds -> PersistedLists]
    /\ registered \in SUBSET Guilds
    /\ \A g \in Guilds : store[g] # EmptyDict => g \in registered
    /\ Cardinality(UNION {{<<g, n>> : n \in DOMAIN store[g]} : g \in Guilds})
          <= MaxObjs
    /\ lock = [g \in Guilds |-> 0]
    /\ saver = IdleSaver("before")
    /\ cmds = [s \in Slots |-> IdleCmd]
    /\ re_pool = "open"
    /\ unloaded = FALSE
    /\ finalFlushes = 0
    /\ issued = 0
    /\ observe = TRUE
    /\ trigger_timeout = DefaultTimeout
    /\ config \in {[default_global EXCEPT !.trigger_timeout = t] :
                      t \in PersistedTimeouts}
    /\ now = StartTime
    /\ ev = NoEv

NextLoad == LoadBegin \/ LoadGuild \/ LoadRecord \/ LoadGuildEnd

SpecLoad == InitLoad /\ [][NextLoad]_vars

(***************************************************************************)
(* save_all_triggers, run by save_loop every 120 seconds and once more by   *)
(* after_save_loop when the loop is cancelled.  Both for statements iterate *)
(* the live dicts: a dict whose size changed since the iteration began      *)
(* makes the next step of the iteration raise RuntimeError.  "async with    *)
(* trigger_list()" takes the lock of that server's trigger_list, works on a *)
(* copy and, on leaving the block (also by an exception), writes the copy   *)
(* back when it differs from what was read.  The coroutine can be suspended *)
(* where it awaits: taking the lock ("acquire"), asyncio.sleep(0.1) after a *)
(* record ("slept"), and the write back on leaving the block ("exit",       *)
(* "exiting"); to_json does not suspend, and bot.get_guild finds every      *)
(* server of the index.                                                     *)
(***************************************************************************)
SaverLock == -1

SaverRuns == ~saver.cancelled \/ saver.final

\* The trigger_list written back on leaving an "async with" block.
CtxWriteBack(st, g, tl0, tl) == IF tl # tl0 THEN [st EXCEPT ![g] = tl] ELSE st

\* The locals of save_all_triggers are gone.
FlushLeft(sv, pc) ==
    [sv EXCEPT !.pc = pc, !.cur = 0, !.tl = EmptyDict, !.tl0 = EmptyDict,
               !.gvisited = {}, !.nvisited = {}, !.osize = 0, !.isize = 0]

\* The task ends when an exception other than a connection error leaves the
\* loop body, and when any exception leaves after_save_loop.
SaverRaised(sv, err) == [FlushLeft(sv, "dead") EXCEPT !.error = err]

\* for guild_id, triggers in self.triggers.items(): the iterator is created
FlushStart(sv) ==
    [FlushLeft(sv, "outer") EXCEPT !.error = "",
                                   !.osize = Cardinality(DOMAIN triggers)]

\* The outer for statement asks its iterator for the next server: the dict
\* changed size (RuntimeError), or it is exhausted (save_all_triggers
\* returns), or the body begins and awaits the lock of the next server.
OuterNext(sv) ==
    IF Cardinality(DOMAIN triggers) # sv.osize
    THEN /\ saver' = SaverRaised(sv, "RuntimeError")
         /\ finalFlushes' = finalFlushes
    ELSE IF (DOMAIN triggers) \ sv.gvisited = {}
    THEN /\ saver' = FlushLeft(sv, IF sv.final THEN "done" ELSE "sleep")
         /\ finalFlushes' = IF sv.final THEN finalFlushes + 1 ELSE finalFlushes
    ELSE /\ \E g \in (DOMAIN triggers) \ sv.gvisited :
              saver' = [sv EXCEPT !.pc = "acquire", !.cur = g,
                                  !.gvisited = sv.gvisited \cup {g}]
         /\ finalFlushes' = finalFlushes

\* The inner for statement asks its iterator for the next trigger: the dict
\* changed size (RuntimeError leaves the block, which writes back what it
\* has), or it is exhausted (the block is left), or the record is put into
\* trigger_list and the coroutine sleeps.  lk is the lock as the step found
\* or made it.
InnerNext(sv, lk) ==
    IF Cardinality(DOMAIN triggers[sv.cur]) # sv.isize
    THEN /\ store' = CtxWriteBack(store, sv.cur, sv.tl0, sv.tl)
         /\ registered' = IF sv.tl # sv.tl0
                          THEN registered \cup {sv.cur} ELSE registered
         /\ lock' = [lk EXCEPT ![sv.cur] = 0]
         /\ saver' = SaverRaised(sv, "RuntimeError")
    ELSE /\ IF (DOMAIN triggers[sv.cur]) \ sv.nvisited = {}
            THEN saver' = [sv EXCEPT !.pc = "exit"]
            ELSE \E n \in (DOMAIN triggers[sv.cur]) \ sv.nvisited :
                   LET t == heap[triggers[sv.cur][n]]
                   IN  saver' = [sv EXCEPT
                                   !.pc = "slept",
                                   !.tl = Put(sv.tl, t.name, to_json(t)),
                                   !.nvisited = sv.nvisited \cup {n}]
         /\ lock' = lk
         /\ UNCHANGED <<store, registered>>

\* save_loop fires and save_all_triggers runs up to its first await.
FlushBegin ==
    /\ saver.pc = "sleep"
    /\ ~saver.cancelled
    /\ OuterNext(FlushStart(saver))
    /\ ev' = TaskEv("flush_begin", 0, "", "")
    /\ UNCHANGED <<triggers, heap, store, registered, lock, cmds, re_pool,
                   unloaded, issued, observe,
                   trigger_timeout, config, now>>

\* async with self.config.guild(guild).trigger_list() as trigger_list: the
\* lock is taken and the list read; the inner for statement begins.
FlushEnter ==
    /\ saver.pc = "acquire"
    /\ SaverRuns
    /\ lock[saver.cur] = 0
    /\ InnerNext([saver EXCEPT
                    !.tl = store[saver.cur],
                    !.tl0 = store[saver.cur],
                    !.isize = Cardinality(DOMAIN triggers[saver.cur]),
                    !.nvisited = {}],
                 [lock EXCEPT ![saver.cur] = SaverLock])
    /\ ev' = TaskEv("flush_enter", saver.cur, "", "")
    /\ UNCHANGED <<triggers, heap, cmds, re_pool, unloaded, finalFlushes,
                   issued, observe,
                   trigger_timeout, config, now>>

\* asyncio.sleep(0.1) returns and the inner for statement goes on.
FlushRecord ==
    /\ saver.pc = "slept"
    /\ SaverRuns
    /\ InnerNext(saver, lock)
    /\ ev' = TaskEv("flush_record", saver.cur, "", saver'.error)
    /\ UNCHANGED <<triggers, heap, cmds, re_pool, unloaded, finalFlushes,
                   issued, observe,
                   trigger_timeout, config, now>>

\* The block is left: the list is written back when it changed.
FlushExit ==
    /\ saver.pc = "exit"
    /\ SaverRuns
    /\ store' = CtxWriteBack(store, saver.cur, saver.tl0, saver.tl)
    /\ registered' = IF saver.tl # saver.tl0
                     THEN registered \cup {saver.cur} ELSE registered
    /\ saver' = [saver EXCEPT !.pc = "exiting"]
    /\ ev' = TaskEv("flush_exit", saver.cur, "", "")
    /\ UNCHANGED <<triggers, heap, lock, cmds, re_pool, unloaded,
                   finalFlushes, issued, observe,
                   trigger_timeout, config, now>>

\* The write back fails with a connection or file error (OSError): nothing is
\* stored.  The loop treats it as a reconnect and runs the body again after a
\* back-off; raised inside after_save_loop it ends the task.
FlushIOError ==
    /\ saver.pc = "exit"
    /\ SaverRuns
    /\ saver.tl # saver.tl0
    /\ lock' = [lock EXCEPT ![saver.cur] = 0]
    /\ saver' = IF saver.final THEN SaverRaised(saver, "OSError")
                ELSE [SaverRaised(saver, "OSError") EXCEPT !.pc = "sleep"]
    /\ ev' = TaskEv("flush_fail", saver.cur, "", "OSError")
    /\ UNCHANGED <<triggers, heap, store, registered, cmds, re_pool, unloaded,
                   finalFlushes, issued, observe,
                   trigger_timeout, config, now>>

\* The write back is done: the lock is released and the outer for statement
\* goes on.
FlushNext ==
    /\ saver.pc = "exiting"
    /\ SaverRuns
    /\ lock' = [lock EXCEPT ![saver.cur] = 0]
    /\ OuterNext([saver EXCEPT !.cur = 0, !.tl = EmptyDict, !.tl0 = EmptyDict,
                               !.nvisited = {}, !.isize = 0])
    /\ ev' = TaskEv("flush_next", saver.cur, "", saver'.error)
    /\ UNCHANGED <<triggers, heap, store, registered, cmds, re_pool, unloaded,
                   issued, observe,
                   trigger_timeout, config, now>>

(***************************************************************************)
(* cog_unload closes the pool and cancels the save loop.  cancel() reaches  *)
(* only a task that is still running; the task then gets CancelledError at  *)
(* the await it is suspended in, leaves an open "async with" block (which   *)
(* writes back), and after_save_loop runs save_all_triggers once more.      *)
(***************************************************************************)
SaverAlive == saver.pc \in {"sleep", "acquire", "slept", "exit", "exiting"}

cog_unload ==
    /\ ~unloaded
    /\ unloaded' = TRUE
    /\ re_pool' = "closed"
    /\ saver' = IF SaverAlive THEN [saver EXCEPT !.cancelled = TRUE] ELSE saver
    /\ ev' = TaskEv("cog_unload", 0, "", "")
    /\ UNCHANGED <<triggers, heap, store, registered, lock, cmds,
                   finalFlushes, issued, observe,
                   trigger_timeout, config, now>>

after_save_loop ==
    /\ saver.cancelled
    /\ ~saver.final
    /\ SaverAlive
    /\ IF saver.pc \in {"slept", "exit"}
       THEN /\ store' = CtxWriteBack(store, saver.cur, saver.tl0, saver.tl)
            /\ registered' = IF saver.tl # saver.tl0
                             THEN registered \cup {saver.cur} ELSE registered
       ELSE UNCHANGED <<store, registered>>
    /\ lock' = IF saver.pc \in {"slept", "exit", "exiting"}
               THEN [lock EXCEPT ![saver.cur] = 0] ELSE lock
    /\ OuterNext([FlushStart(saver) EXCEPT !.final = TRUE])
    /\ ev' = TaskEv("after_save_loop", 0, "", saver'.error)
    /\ UNCHANGED <<triggers, heap, cmds, re_pool, unloaded, issued, observe,
                   trigger_timeout, config, now>>

SaverStep ==
    \/ FlushBegin
    \/ FlushEnter
    \/ FlushRecord
    \/ FlushExit
    \/ FlushIOError
    \/ FlushNext
    \/ after_save_loop

\* A new command coroutine takes the first free slot (which slot it is has
\* no meaning).  A specification that counts its commands runs them one
\* after the other, MaxIssued of them.
FreeSlot(s, counted) ==
    /\ cmds[s].pc = "idle"
    /\ \A t \in Slots : t < s => cmds[t].pc # "idle"
    /\ counted => /\ issued < MaxIssued
                  /\ \A t \in Slots : cmds[t].pc = "idle"

\* The command returns (or raises) without having changed anything.
Reply(s, e) ==
    /\ cmds' = [cmds EXCEPT ![s] = IdleCmd]
    /\ ev' = e
    /\ UNCHANGED <<triggers, heap, store, registered, lock>>

(***************************************************************************)
(* Resolving the trigger argument.  On the text path the TriggerExists      *)
(* converter hands the command the Trigger object, or the name as a string  *)
(* when the server has no such trigger; on the slash path the dispatcher    *)
(* looks the name up in the index and hands over the object or None.        *)
(***************************************************************************)
Resolve(g, n) == IF InIndex(g, n) THEN triggers[g][n] ELSE 0

\* type(trigger) is str
IsStr(path, oid) == path = "text" /\ oid = 0

\* type(trigger) is Trigger
IsTrigger(oid) == oid # 0

(***************************************************************************)
(* The creation commands.                                                   *)
(***************************************************************************)
CreateKinds ==
    {"text", "random", "dm", "dmme", "rename", "image", "randomimage",
     "imagetext", "resize", "ban", "kick", "react", "publish", "command",
     "mock", "filter", "addrole", "removerole", "multi"}

\* The regex parameter is annotated ValidRegex, except in ban, kick, filter.
UsesValidRegex(k) == k \notin {"ban", "kick", "filter"}

\* The ValidRegex converter (converters.py) accepts what compiles.
ValidRegex(r) == Compiles(r)

\* The slash dispatcher compiles the regex option before calling the command.
SlashRegexOk(r) == Compiles(r)

\* The slash dispatcher maps every creation command but these two.
SlashKinds == CreateKinds \ {"random", "randomimage"}

\* Commands that await the user (or a download) between the duplicate-name
\* check and the insert into the index.
Suspends(k) == k \in {"random", "image", "randomimage", "imagetext", "resize"}

\* ... and those whose awaited input can make them give up.
CanAbort(k) == k \in {"random", "image", "imagetext", "resize"}

\* Commands that validate another argument right after the duplicate-name
\* check: delete_after, the command name, the role hierarchy, the actions.
ChecksArgs(k) ==
    k \in {"text", "command", "mock", "addrole", "removerole", "multi"}

\* The multi_response arguments the multi command is tried with: none, and
\* two lists of (action, payload) entries.
MultiResponse == << <<"dm", "hi">>, <<"delete", "">> >>

MultiReact == << <<"react", "emoji">>, <<"text", "hi">> >>

MultiResponses == {<< >>, MultiResponse, MultiReact}

\* A mutation of Actions: only the first action is kept.
ActionsFirstOnly(mr) == [i \in (DOMAIN mr) \cap {1} |-> mr[i][1]]

\* [i[0] for i in multi_response]
Actions(mr) == [i \in DOMAIN mr |-> mr[i][1]]

ResponseType(k) ==
    CASE k = "random" -> <<"randtext">>
      [] k = "randomimage" -> <<"randimage">>
      [] k = "imagetext" -> <<"image">>
      [] k = "filter" -> <<"delete">>
      [] k = "addrole" -> <<"add_role">>
      [] k = "removerole" -> <<"remove_role">>
      [] OTHER -> <<k>>

PayloadText(k) ==
    CASE k \in {"text", "random", "dm", "dmme", "rename", "imagetext"} -> <<"hi">>
      [] k = "react" -> <<"emoji">>
      [] k \in {"command", "mock"} -> <<"ping">>
      [] k \in {"addrole", "removerole"} -> <<"role1">>
      [] OTHER -> << >>

PayloadImage(k) ==
    IF k \in {"image", "randomimage", "imagetext", "resize"} THEN "file.png" ELSE ""

\* new_trigger = Trigger(name, regex, [...], author, ...)
\* A mutation of NewTrigger: no command passes check_edits=True.
NewTriggerNoEdits(k, n, r, u, mr) ==
    Trigger(n, r, IF k = "multi" THEN Actions(mr) ELSE ResponseType(k), u,
            PayloadText(k), PayloadImage(k), FALSE,
            IF k = "multi" THEN mr ELSE << >>)

NewTrigger(k, n, r, u, mr) ==
    Trigger(n, r, IF k = "multi" THEN Actions(mr) ELSE ResponseType(k), u,
            PayloadText(k), PayloadImage(k), k \in {"ban", "kick", "filter"},
            IF k = "multi" THEN mr ELSE << >>)

\* A mutation of NameTaken: the duplicate-name check left out.
NameTakenSkipped(g, n) == FALSE

\* ctx.guild.id in self.triggers and name in self.triggers[ctx.guild.id]
NameTaken(g, n) == g \in DOMAIN triggers /\ n \in DOMAIN triggers[g]

\* new_trigger = Trigger(...), which compiles the source and raises when it
\* does not compile; self.triggers[ctx.guild.id][new_trigger.name] =
\* new_trigger; then the command awaits config.guild(guild).trigger_list()
Insert(s, path, g, n, u, k, r, mr) ==
    IF ~Compiles(r)
    THEN Reply(s, Ev("create", k, path, g, n, u, Resolve(g, n), "error"))
    ELSE /\ Len(heap) < MaxObjs
         /\ heap' = Append(heap, NewTrigger(k, n, r, u, mr))
         /\ triggers' = IndexPut(triggers, g, n, Len(heap) + 1)
         /\ cmds' = [cmds EXCEPT ![s] =
                       [IdleCmd EXCEPT !.pc = "get", !.op = "create", !.kind = k,
                                       !.path = path, !.g = g, !.name = n,
                                       !.user = u, !.oid = Len(heap) + 1]]
         /\ ev' = Ev("create", k, path, g, n, u, Resolve(g, n), "inserted")
         /\ UNCHANGED <<store, registered, lock>>

\* The body of a creation command from its duplicate-name check on.
CreateBody(s, path, g, n, u, k, r, argsOk, mr) ==
    IF NameTaken(g, n)
    THEN Reply(s, Ev("create", k, path, g, n, u, Resolve(g, n), "already_exists"))
    ELSE IF ChecksArgs(k) /\ ~argsOk
    THEN Reply(s, Ev("create", k, path, g, n, u, Resolve(g, n), "rejected"))
    ELSE IF Suspends(k)
    THEN /\ cmds' = [cmds EXCEPT ![s] =
                       [IdleCmd EXCEPT !.pc = "wait", !.op = "create", !.kind = k,
                                       !.path = path, !.g = g, !.name = n,
                                       !.user = u, !.regex = r]]
         /\ ev' = Ev("create", k, path, g, n, u, Resolve(g, n), "waiting")
         /\ UNCHANGED <<triggers, heap, store, registered, lock>>
    ELSE Insert(s, path, g, n, u, k, r, mr)

\* A creation command is invoked, as a text command or as a slash command.
CreateCall(s, guilds, kinds, users, regexes, counted) ==
    /\ FreeSlot(s, counted)
    /\ ~unloaded
    /\ \E g \in guilds, n \in Names, u \in users, k \in kinds, r \in regexes,
          path \in {"text", "slash"}, argsOk \in BOOLEAN,
          mr \in MultiResponses :
         /\ path = "slash" => k \in SlashKinds
         \* multi is rejected when it is given no actions
         /\ IF k = "multi" THEN argsOk = (mr # << >>) ELSE mr = << >>
         /\ IF \/ path = "text" /\ UsesValidRegex(k) /\ ~ValidRegex(r)
               \/ path = "slash" /\ ~SlashRegexOk(r)
            THEN \* rejected before the command body runs
                 Reply(s, Ev("create", k, path, g, n, u, Resolve(g, n),
                             "invalid_regex"))
            ELSE IF k = "mock"
            THEN /\ cmds' = [cmds EXCEPT ![s] =
                               [IdleCmd EXCEPT !.pc = "confirm", !.op = "create",
                                               !.kind = k, !.path = path,
                                               !.g = g, !.name = n, !.user = u,
                                               !.regex = r, !.ok = argsOk]]
                 /\ ev' = Ev("create", k, path, g, n, u, Resolve(g, n), "confirm?")
                 /\ UNCHANGED <<triggers, heap, store, registered, lock>>
            ELSE CreateBody(s, path, g, n, u, k, r, argsOk, mr)
    /\ issued' = IF counted THEN issued + 1 ELSE issued
    /\ UNCHANGED <<saver, re_pool, unloaded, finalFlushes, observe,
                   trigger_timeout, config, now>>

\* wait_for("reaction_add", check=pred, timeout=15)
MockWait == 15

\* The seconds after which the invoker's reaction is tried to arrive.
Elapsed == {0, 14, 16}

\* A mutation of Confirmed: only the answer no stops the command.
ConfirmedUnlessNo(answer, elapsed) == answer # "no"

\* wait_for returned within its timeout, and pred.result is true
Confirmed(answer, elapsed) == elapsed < MockWait /\ answer = "yes"

\* mock: the invoker's reaction arrives after some seconds, or never.
MockAnswer(s, answer, elapsed) ==
    /\ cmds[s].pc = "confirm"
    /\ LET c == cmds[s]
       IN  IF Confirmed(answer, elapsed)
           THEN CreateBody(s, c.path, c.g, c.name, c.user, c.kind, c.regex,
                           c.ok, << >>)
           ELSE Reply(s, Ev("create", c.kind, c.path, c.g, c.name, c.user,
                            Resolve(c.g, c.name), "not_creating"))
    /\ UNCHANGED <<saver, re_pool, unloaded, finalFlushes, issued, observe,
                   trigger_timeout, config, now>>

CreateConfirm(s) ==
    \E answer \in {"yes", "no"}, elapsed \in Elapsed :
      MockAnswer(s, answer, elapsed)

\* The awaited input arrives; the name is not looked up again.
CreateResume(s) ==
    /\ cmds[s].pc = "wait"
    /\ LET c == cmds[s]
       IN  \E inputOk \in BOOLEAN :
             IF CanAbort(c.kind) /\ ~inputOk
             THEN Reply(s, Ev("create", c.kind, c.path, c.g, c.name, c.user,
                              Resolve(c.g, c.name), "rejected"))
             ELSE /\ inputOk
                  /\ Insert(s, c.path, c.g, c.name, c.user, c.kind, c.regex,
                            << >>)
    /\ UNCHANGED <<saver, re_pool, unloaded, finalFlushes, issued, observe,
                   trigger_timeout, config, now>>

(***************************************************************************)
(* The commands of the edit group.  Each operator below is the body of one  *)
(* command after its "type(trigger) is str" test, applied to the Trigger t  *)
(* by the invoker u with the remaining arguments a; it yields what the      *)
(* command reports and the Trigger as the command leaves it.                *)
(***************************************************************************)
Arg(n, s, b) == [n |-> n, s |-> s, b |-> b]

\* can_edit (triggerhandler.py): the server owner, the bot owner or the
\* original author of the trigger.
can_edit(u, t) == u = t.author \/ u = BotOwner \/ u = GuildOwner

Denied(t, report) == [report |-> report, t |-> t]

Edited(t) == [report |-> "edited", t |-> t]

In(x, seq) == \E i \in DOMAIN seq : seq[i] = x

CooldownStyles == {"guild", "server", "channel", "user", "member"}

\* A mutation of cooldown: a time of 0 or less is stored like any other.
cooldown_never_cleared(t, u, a) ==
    IF a.s \notin CooldownStyles
    THEN Denied(t, "rejected")
    ELSE LET style == IF a.s \in {"user", "member"} THEN "author" ELSE a.s
             last == IF style \in {"guild", "server"}
                     THEN LastSingle(0) ELSE LastPerId(EmptyDict)
         IN  Edited([t EXCEPT !.cooldown =
                        [time |-> a.n, style |-> style, last |-> last]])

cooldown(t, u, a) ==
    IF a.s \notin CooldownStyles
    THEN Denied(t, "rejected")
    ELSE LET style == IF a.s \in {"user", "member"} THEN "author" ELSE a.s
             last == IF style \in {"guild", "server"}
                     THEN LastSingle(0) ELSE LastPerId(EmptyDict)
         IN  Edited([t EXCEPT !.cooldown =
                        IF a.n <= 0 THEN NoCooldown
                        ELSE [time |-> a.n, style |-> style, last |-> last]])

\* A mutation of edit_regex: the new source is stored without compiling it.
edit_regex_uncompiled(t, u, a) ==
    IF ~can_edit(u, t) THEN Denied(t, "not_authorized")
    ELSE Edited([t EXCEPT !.regex = [pattern |-> a.s]])

edit_regex(t, u, a) ==
    IF ~can_edit(u, t) THEN Denied(t, "not_authorized")
    ELSE IF ~Compiles(a.s) THEN Denied(t, "error")    \* re.compile raises
    ELSE Edited([t EXCEPT !.regex = re_compile(a.s)])

toggle_ocr_search(t, u, a) ==
    IF ~can_edit(u, t) THEN Denied(t, "not_authorized")
    ELSE Edited([t EXCEPT !.ocr_search = ~t.ocr_search])

\* A mutation of toggle_nsfw: the command also disables the trigger.
toggle_nsfw_and_disable(t, u, a) ==
    IF ~can_edit(u, t) THEN Denied(t, "not_authorized")
    ELSE Edited([t EXCEPT !.nsfw = ~t.nsfw, !.enabled = FALSE])

toggle_nsfw(t, u, a) ==
    IF ~can_edit(u, t) THEN Denied(t, "not_authorized")
    ELSE Edited([t EXCEPT !.nsfw = ~t.nsfw])

toggle_filename_search(t, u, a) ==
    IF ~can_edit(u, t) THEN Denied(t, "not_authorized")
    ELSE Edited([t EXCEPT !.read_filenames = ~t.read_filenames])

set_reply(t, u, a) ==
    IF ~can_edit(u, t) THEN Denied(t, "not_authorized")
    ELSE Edited([t EXCEPT !.reply = a.s])

set_tts(t, u, a) ==
    IF ~can_edit(u, t) THEN Denied(t, "not_authorized")
    ELSE Edited([t EXCEPT !.tts = a.b])

set_user_mention(t, u, a) ==
    IF ~can_edit(u, t) THEN Denied(t, "not_authorized")
    ELSE Edited([t EXCEPT !.user_mention = a.b])

set_everyone_mention(t, u, a) ==
    IF ~can_edit(u, t) THEN Denied(t, "not_authorized")
    ELSE Edited([t EXCEPT !.everyone_mention = a.b])

set_role_mention(t, u, a) ==
    IF ~can_edit(u, t) THEN Denied(t, "not_authorized")
    ELSE Edited([t EXCEPT !.role_mention = a.b])

toggle_check_edits(t, u, a) ==
    IF ~can_edit(u, t) THEN Denied(t, "not_authorized")
    ELSE Edited([t EXCEPT !.check_edits = ~t.check_edits])

edit_text(t, u, a) ==
    IF ~can_edit(u, t) THEN Denied(t, "not_authorized")
    ELSE IF t.multi_payload # << >> THEN Denied(t, "no_multi")
    ELSE IF ~In("text", t.response_type) THEN Denied(t, "no_edit")
    ELSE Edited([t EXCEPT !.text = <<a.s>>])

\* A mutation of edit_chance: a negative chance is stored as given.
edit_chance_unclamped(t, u, a) ==
    IF ~can_edit(u, t) THEN Denied(t, "not_authorized")
    ELSE Edited([t EXCEPT !.chance = a.n])

edit_chance(t, u, a) ==
    IF ~can_edit(u, t) THEN Denied(t, "not_authorized")
    ELSE Edited([t EXCEPT !.chance = IF a.n < 0 THEN 0 ELSE a.n])

\* a.n is delete_after in milliseconds (0: the argument was left out)
edit_delete_after(t, u, a) ==
    IF ~can_edit(u, t) THEN Denied(t, "not_authorized")
    ELSE IF ~In("text", t.response_type) THEN Denied(t, "no_edit")
    ELSE IF a.n # 0 /\ a.n < 1000 THEN Denied(t, "rejected")
    ELSE Edited([t EXCEPT !.delete_after = a.n \div 1000])

edit_ignore_commands(t, u, a) ==
    IF ~can_edit(u, t) THEN Denied(t, "not_authorized")
    ELSE Edited([t EXCEPT !.ignore_commands = ~t.ignore_commands])

\* a.b: bot.get_command finds the command
edit_command(t, u, a) ==
    IF ~can_edit(u, t) THEN Denied(t, "not_authorized")
    ELSE IF t.multi_payload # << >> THEN Denied(t, "no_multi")
    ELSE IF ~a.b THEN Denied(t, "rejected")
    ELSE IF ~In("command", t.response_type) THEN Denied(t, "no_edit")
    ELSE Edited([t EXCEPT !.text = <<a.s>>])

\* a.b: every role is below the top role of the bot and of the invoker
edit_roles(t, u, a) ==
    IF ~can_edit(u, t) THEN Denied(t, "not_authorized")
    ELSE IF t.multi_payload # << >> THEN Denied(t, "no_multi")
    ELSE IF ~a.b THEN Denied(t, "rejected")
    ELSE IF ~(In("add_role", t.response_type) \/ In("remove_role", t.response_type))
    THEN Denied(t, "no_edit")
    ELSE Edited([t EXCEPT !.text = <<a.s>>])

edit_reactions(t, u, a) ==
    IF ~can_edit(u, t) THEN Denied(t, "not_authorized")
    ELSE IF ~In("react", t.response_type) THEN Denied(t, "no_edit")
    ELSE Edited([t EXCEPT !.text = <<a.s>>])

\* A mutation of disable_trigger: the chance is reset as well.
disable_and_reset(t, u, a) == Edited([t EXCEPT !.enabled = FALSE, !.chance = 0])

enable_trigger(t, u, a) == Edited([t EXCEPT !.enabled = TRUE])

disable_trigger(t, u, a) == Edited([t EXCEPT !.enabled = FALSE])

EditCmds ==
    {"cooldown", "regex", "ocr", "nsfw", "readfilenames", "reply", "tts",
     "usermention", "everyonemention", "rolemention", "edited", "text",
     "chance", "deleteafter", "ignorecommands", "command", "role", "react",
     "enable", "disable"}

\* The arguments each command is tried with.
EditArgs(e) ==
    CASE e = "cooldown" -> {Arg(5, "guild", FALSE), Arg(5, "server", FALSE),
                            Arg(5, "channel", FALSE), Arg(5, "user", FALSE),
                            Arg(5, "member", FALSE), Arg(0, "channel", FALSE),
                            Arg(5, "bogus", FALSE)}
      [] e = "regex" -> {Arg(0, "bar", FALSE), Arg(0, "(", FALSE)}
      [] e = "reply" -> {Arg(0, "True", FALSE), Arg(0, "None", FALSE)}
      [] e \in {"tts", "usermention", "everyonemention", "rolemention"} ->
            {Arg(0, "", TRUE), Arg(0, "", FALSE)}
      [] e = "text" -> {Arg(0, "bye", FALSE)}
      [] e = "chance" -> {Arg(-1, "", FALSE), Arg(4, "", FALSE)}
      [] e = "deleteafter" -> {Arg(0, "", FALSE), Arg(500, "", FALSE),
                               Arg(10000, "", FALSE)}
      [] e = "command" -> {Arg(0, "pong", TRUE), Arg(0, "nosuch", FALSE)}
      [] e = "role" -> {Arg(0, "role2", TRUE), Arg(0, "role9", FALSE)}
      [] e = "react" -> {Arg(0, "emoji2", FALSE)}
      [] OTHER -> {NoArg}

\* The command mapping of the edit group.
EditRun(e, t, u, a) ==
    CASE e = "cooldown" -> cooldown(t, u, a)
      [] e = "regex" -> edit_regex(t, u, a)
      [] e = "ocr" -> toggle_ocr_search(t, u, a)
      [] e = "nsfw" -> toggle_nsfw(t, u, a)
      [] e = "readfilenames" -> toggle_filename_search(t, u, a)
      [] e = "reply" -> set_reply(t, u, a)
      [] e = "tts" -> set_tts(t, u, a)
      [] e = "usermention" -> set_user_mention(t, u, a)
      [] e = "everyonemention" -> set_everyone_mention(t, u, a)
      [] e = "rolemention" -> set_role_mention(t, u, a)
      [] e = "edited" -> toggle_check_edits(t, u, a)
      [] e = "text" -> edit_text(t, u, a)
      [] e = "chance" -> edit_chance(t, u, a)
      [] e = "deleteafter" -> edit_delete_after(t, u, a)
      [] e = "ignorecommands" -> edit_ignore_commands(t, u, a)
      [] e = "command" -> edit_command(t, u, a)
      [] e = "role" -> edit_roles(t, u, a)
      [] e = "react" -> edit_reactions(t, u, a)
      [] e = "enable" -> enable_trigger(t, u, a)
      [] e = "disable" -> disable_trigger(t, u, a)

\* What a command of the edit group does with None, the trigger argument of
\* the slash path when the name is unknown: None is no str, so the command
\* goes on and raises AttributeError at its first use of the trigger
\* (cooldown tests its style argument before that).
NoneReport(e, a) ==
    IF e = "cooldown" /\ a.s \notin CooldownStyles
    THEN "rejected" ELSE "error"

\* A command of the edit group is invoked.  On the text path the converters
\* run first (TriggerExists, then ValidRegex for the regex command); the
\* slash dispatcher of the group looks the trigger up and passes the other
\* options on as they are.
EditCall(s, guilds, users, ecmds, counted) ==
    /\ FreeSlot(s, counted)
    /\ ~unloaded
    /\ \E g \in guilds, n \in Names, u \in users, e \in ecmds,
          path \in {"text", "slash"} :
         \E a \in EditArgs(e) :
           LET oid == Resolve(g, n)
               E(rep) == Ev("edit", e, path, g, n, u, oid, rep)
               call == [IdleCmd EXCEPT !.op = "edit", !.kind = e, !.path = path,
                                       !.g = g, !.name = n, !.user = u,
                                       !.arg = a, !.oid = oid]
           IN  IF path = "text" /\ e = "regex" /\ ~ValidRegex(a.s)
               THEN Reply(s, E("invalid_regex"))
               ELSE IF IsStr(path, oid)
               THEN Reply(s, E("no_trigger"))
               ELSE IF oid = 0
               THEN Reply(s, E(NoneReport(e, a)))
               ELSE LET out == EditRun(e, heap[oid], u, a)
                    IN  IF out.report # "edited"
                        THEN Reply(s, E(out.report))
                        ELSE IF e = "cooldown"
                        THEN \* awaits trigger_list() before it assigns
                             /\ cmds' = [cmds EXCEPT ![s] =
                                           [call EXCEPT !.pc = "get"]]
                             /\ ev' = E("editing")
                             /\ UNCHANGED <<triggers, heap, store, registered,
                                            lock>>
                        ELSE \* assigns, then enters "async with"
                             /\ heap' = [heap EXCEPT ![oid] = out.t]
                             /\ cmds' = [cmds EXCEPT ![s] =
                                           [call EXCEPT !.pc = "ctx"]]
                             /\ ev' = E("editing")
                             /\ UNCHANGED <<triggers, store, registered, lock>>
    /\ issued' = IF counted THEN issued + 1 ELSE issued
    /\ UNCHANGED <<saver, re_pool, unloaded, finalFlushes, observe,
                   trigger_timeout, config, now>>

\* trigger_list = await self.config.guild(guild).trigger_list() returns; the
\* command goes on to trigger_list[name] = await trigger.to_json() (cooldown
\* assigns trigger.cooldown first) and awaits trigger_list.set(trigger_list).
CmdGet(s) ==
    /\ cmds[s].pc = "get"
    /\ LET c == cmds[s]
           t == IF c.op = "edit"
                THEN cooldown(heap[c.oid], c.user, c.arg).t
                ELSE heap[c.oid]
       IN  /\ heap' = [heap EXCEPT ![c.oid] = t]
           /\ cmds' = [cmds EXCEPT ![s].pc = "set",
                                   ![s].tl = Put(store[c.g], t.name, to_json(t))]
           /\ ev' = Ev(c.op, c.kind, c.path, c.g, c.name, c.user, c.oid, "get")
    /\ UNCHANGED <<triggers, store, registered, lock, saver, re_pool,
                   unloaded, finalFlushes, issued, observe,
                   trigger_timeout, config, now>>

\* trigger_list.set(trigger_list) has stored the list; the command reports.
CmdSet(s) ==
    /\ cmds[s].pc = "set"
    /\ LET c == cmds[s]
       IN  /\ store' = [store EXCEPT ![c.g] = c.tl]
           /\ registered' = registered \cup {c.g}
           /\ ev' = Ev(c.op, c.kind, c.path, c.g, c.name, c.user, c.oid,
                       IF c.op = "create" THEN "trigger_set" ELSE "edited")
    /\ cmds' = [cmds EXCEPT ![s] = IdleCmd]
    /\ UNCHANGED <<triggers, heap, lock, saver, re_pool, unloaded,
                   finalFlushes, issued, observe,
                   trigger_timeout, config, now>>

(***************************************************************************)
(* The allowlist and blocklist commands (text path), given one channel,     *)
(* user or role or none.  The list is changed inside the "async with"       *)
(* block, and only when the object is not yet (add) or still (remove) on it. *)
(***************************************************************************)
ListCmds ==
    {"whitelist_add", "whitelist_remove", "blacklist_add", "blacklist_remove"}

\* list.remove(x): the first occurrence of x is taken out.
Without(seq, x) ==
    LET first == CHOOSE i \in DOMAIN seq :
                   seq[i] = x /\ \A j \in 1 .. (i - 1) : seq[j] # x
    IN  IF ~In(x, seq) THEN seq
        ELSE [i \in 1 .. (Len(seq) - 1) |->
                IF i < first THEN seq[i] ELSE seq[i + 1]]

ListHas(k, t, x) ==
    IF k \in {"whitelist_add", "whitelist_remove"}
    THEN In(x, t.whitelist) ELSE In(x, t.blacklist)

ListApply(k, t, x) ==
    CASE k = "whitelist_add" -> [t EXCEPT !.whitelist = Append(t.whitelist, x)]
      [] k = "whitelist_remove" -> [t EXCEPT !.whitelist = Without(t.whitelist, x)]
      [] k = "blacklist_add" -> [t EXCEPT !.blacklist = Append(t.blacklist, x)]
      [] k = "blacklist_remove" -> [t EXCEPT !.blacklist = Without(t.blacklist, x)]

ListCall(s, guilds, users, counted) ==
    /\ FreeSlot(s, counted)
    /\ ~unloaded
    /\ \E g \in guilds, n \in Names, u \in users, k \in ListCmds,
          objs \in {<< >>, <<"chan1">>} :
         LET oid == Resolve(g, n)
             E(rep) == Ev("list_edit", k, "text", g, n, u, oid, rep)
         IN  IF IsStr("text", oid)
             THEN Reply(s, E("no_trigger"))
             ELSE IF Len(objs) < 1
             THEN Reply(s, E("rejected"))
             ELSE IF ListHas(k, heap[oid], objs[1]) =
                        (k \in {"whitelist_add", "blacklist_add"})
             THEN Reply(s, E("done"))
             ELSE /\ cmds' = [cmds EXCEPT ![s] =
                                [IdleCmd EXCEPT !.pc = "ctx", !.op = "list_edit",
                                                !.kind = k, !.path = "text",
                                                !.g = g, !.name = n, !.user = u,
                                                !.arg = Arg(0, objs[1], FALSE),
                                                !.oid = oid]]
                  /\ ev' = E("editing")
                  /\ UNCHANGED <<triggers, heap, store, registered, lock>>
    /\ issued' = IF counted THEN issued + 1 ELSE issued
    /\ UNCHANGED <<saver, re_pool, unloaded, finalFlushes, observe,
                   trigger_timeout, config, now>>

\* async with self.config.guild(ctx.guild).trigger_list() as trigger_list:
\*     trigger_list[trigger.name] = await trigger.to_json()
\* The block takes the lock, and on leaving writes the list back.
CtxCommit(s) ==
    /\ cmds[s].pc = "ctx"
    /\ LET c == cmds[s]
           t == IF c.op = "list_edit"
                THEN ListApply(c.kind, heap[c.oid], c.arg.s)
                ELSE heap[c.oid]
           \* list.remove raises ValueError when another command has taken
           \* the identifier out since this one tested for it
           raises == /\ c.op = "list_edit"
                     /\ c.kind \in {"whitelist_remove", "blacklist_remove"}
                     /\ ~ListHas(c.kind, heap[c.oid], c.arg.s)
       IN  /\ lock[c.g] = 0
           /\ IF raises
              THEN /\ UNCHANGED <<heap, store, registered>>
                   /\ ev' = Ev(c.op, c.kind, c.path, c.g, c.name, c.user,
                               c.oid, "error")
              ELSE /\ heap' = [heap EXCEPT ![c.oid] = t]
                   /\ store' = CtxWriteBack(store, c.g, store[c.g],
                                            Put(store[c.g], t.name, to_json(t)))
                   /\ registered' = registered \cup {c.g}
                   /\ ev' = Ev(c.op, c.kind, c.path, c.g, c.name, c.user,
                               c.oid, "edited")
    /\ cmds' = [cmds EXCEPT ![s] = IdleCmd]
    /\ UNCHANGED <<triggers, lock, saver, re_pool, unloaded, finalFlushes,
                   issued, observe,
                   trigger_timeout, config, now>>

(***************************************************************************)
(* remove.  remove_trigger lives in triggerhandler.py: under the lock of    *)
(* the server's trigger_list it deletes the record from the store and the   *)
(* entry from the index.                                                    *)
(***************************************************************************)
RemoveCall(s, guilds, users, counted) ==
    /\ FreeSlot(s, counted)
    /\ ~unloaded
    /\ \E g \in guilds, n \in Names, u \in users, path \in {"text", "slash"} :
         LET oid == Resolve(g, n)
             E(rep) == Ev("remove", "remove", path, g, n, u, oid, rep)
         IN  IF IsTrigger(oid)
             THEN /\ cmds' = [cmds EXCEPT ![s] =
                                [IdleCmd EXCEPT !.pc = "remove", !.op = "remove",
                                                !.kind = "remove", !.path = path,
                                                !.g = g, !.name = heap[oid].name,
                                                !.user = u, !.oid = oid]]
                  /\ ev' = E("removing")
                  /\ UNCHANGED <<triggers, heap, store, registered, lock>>
             ELSE Reply(s, E("no_trigger"))
    /\ issued' = IF counted THEN issued + 1 ELSE issued
    /\ UNCHANGED <<saver, re_pool, unloaded, finalFlushes, observe,
                   trigger_timeout, config, now>>

remove_trigger(s) ==
    /\ cmds[s].pc = "remove"
    /\ LET c == cmds[s]
       IN  /\ lock[c.g] = 0
           /\ store' = [store EXCEPT ![c.g] = Del(store[c.g], c.name)]
           /\ triggers' = [triggers EXCEPT ![c.g] = Del(triggers[c.g], c.name)]
           /\ ev' = Ev("remove", "remove", c.path, c.g, c.name, c.user, c.oid,
                       "removed")
    /\ cmds' = [cmds EXCEPT ![s] = IdleCmd]
    /\ UNCHANGED <<heap, registered, lock, saver, re_pool, unloaded,
                   finalFlushes, issued, observe,
                   trigger_timeout, config, now>>

(***************************************************************************)
(* timeout and bypass, the two commands of the bot owner.  A command that   *)
(* asks for confirmation awaits the owner's reaction for 30 seconds; the    *)
(* Config value is stored by an awaited set(), and timeout assigns          *)
(* self.trigger_timeout after that await.                                   *)
(***************************************************************************)
TimeoutArgs == {0, 1, 2, 11}

\* A mutation of TimeoutNeedsConfirm: no timeout asks for confirmation.
TimeoutNeverConfirmed(t) == FALSE

\* if timeout > 1:
TimeoutNeedsConfirm(t) == t > 1

\* A mutation of ClampTimeout: the value is stored as given.
TimeoutUnclamped(t) == t

\* if timeout < 1: timeout = 1
ClampTimeout(t) == IF t < 1 THEN 1 ELSE t

\* The value the command stores: as confirmed, or clamped in the else branch
\* ("elif timeout > 10" is never taken: such a timeout is also > 1).
TimeoutValue(c) == IF c.ok THEN c.arg.n ELSE ClampTimeout(c.arg.n)

TimeoutCall(s) ==
    /\ FreeSlot(s, FALSE)
    /\ ~unloaded
    /\ \E t \in TimeoutArgs :
         /\ cmds' = [cmds EXCEPT ![s] =
                       [IdleCmd EXCEPT !.pc = IF TimeoutNeedsConfirm(t)
                                             THEN "ask_timeout"
                                             ELSE "set_timeout",
                                       !.op = "timeout", !.kind = "timeout",
                                       !.path = "text", !.user = BotOwner,
                                       !.arg = Arg(t, "", FALSE)]]
         /\ ev' = Ev("timeout", "timeout", "text", 0, "", BotOwner, 0,
                     IF TimeoutNeedsConfirm(t) THEN "confirm?" ELSE "setting")
    /\ UNCHANGED <<triggers, heap, store, registered, lock, saver, re_pool,
                   unloaded, finalFlushes, issued, observe,
                   trigger_timeout, config, now>>

\* The owner answers, or wait_for raises asyncio.TimeoutError.
TimeoutConfirm(s) ==
    /\ cmds[s].pc = "ask_timeout"
    /\ \E answer \in {"yes", "no", "timeout"} :
         IF answer = "yes"
         THEN /\ cmds' = [cmds EXCEPT ![s].pc = "set_timeout", ![s].ok = TRUE]
              /\ ev' = Ev("timeout", "timeout", "text", 0, "", BotOwner, 0,
                          "setting")
              /\ UNCHANGED <<triggers, heap, store, registered, lock>>
         ELSE Reply(s, Ev("timeout", "timeout", "text", 0, "", BotOwner, 0,
                          "not_changing"))
    /\ UNCHANGED <<saver, re_pool, unloaded, finalFlushes, issued, observe,
                   trigger_timeout, config, now>>

\* await self.config.trigger_timeout.set(timeout)
TimeoutSet(s) ==
    /\ cmds[s].pc = "set_timeout"
    /\ config' = [config EXCEPT !.trigger_timeout = TimeoutValue(cmds[s])]
    /\ cmds' = [cmds EXCEPT ![s].pc = "assign_timeout"]
    /\ ev' = Ev("timeout", "timeout", "text", 0, "", BotOwner, 0, "stored")
    /\ UNCHANGED <<triggers, heap, store, registered, lock, saver, re_pool,
                   unloaded, finalFlushes, issued, observe, trigger_timeout,
                   now>>

\* self.trigger_timeout = timeout, and the command reports.
TimeoutAssign(s) ==
    /\ cmds[s].pc = "assign_timeout"
    /\ trigger_timeout' = TimeoutValue(cmds[s])
    /\ Reply(s, Ev("timeout", "timeout", "text", 0, "", BotOwner, 0, "set"))
    /\ UNCHANGED <<saver, re_pool, unloaded, finalFlushes, issued, observe,
                   config, now>>

\* A mutation of BypassNeedsConfirm: bypass is turned on without asking.
BypassNeverConfirmed(b) == FALSE

\* if bypass:
BypassNeedsConfirm(b) == b

BypassCall(s) ==
    /\ FreeSlot(s, FALSE)
    /\ ~unloaded
    /\ \E g \in Guilds, b \in BOOLEAN :
         /\ cmds' = [cmds EXCEPT ![s] =
                       [IdleCmd EXCEPT !.pc = IF BypassNeedsConfirm(b)
                                             THEN "ask_bypass"
                                             ELSE "set_bypass",
                                       !.op = "bypass", !.kind = "bypass",
                                       !.path = "text", !.g = g,
                                       !.user = BotOwner,
                                       !.arg = Arg(0, "", b)]]
         /\ ev' = Ev("bypass", "bypass", "text", g, "", BotOwner, 0,
                     IF BypassNeedsConfirm(b) THEN "confirm?" ELSE "setting")
    /\ UNCHANGED <<triggers, heap, store, registered, lock, saver, re_pool,
                   unloaded, finalFlushes, issued, observe,
                   trigger_timeout, config, now>>

BypassConfirm(s) ==
    /\ cmds[s].pc = "ask_bypass"
    /\ \E answer \in {"yes", "no", "timeout"} :
         IF answer = "yes"
         THEN /\ cmds' = [cmds EXCEPT ![s].pc = "set_bypass", ![s].ok = TRUE]
              /\ ev' = Ev("bypass", "bypass", "text", cmds[s].g, "", BotOwner,
                          0, "setting")
              /\ UNCHANGED <<triggers, heap, store, registered, lock>>
         ELSE Reply(s, Ev("bypass", "bypass", "text", cmds[s].g, "", BotOwner,
                          0, "not_bypassing"))
    /\ UNCHANGED <<saver, re_pool, unloaded, finalFlushes, issued, observe,
                   trigger_timeout, config, now>>

\* await self.config.guild(ctx.guild).bypass.set(bypass), and the report.
BypassSet(s) ==
    /\ cmds[s].pc = "set_bypass"
    /\ config' = [config EXCEPT !.bypass[cmds[s].g] = cmds[s].arg.b]
    /\ Reply(s, Ev("bypass", "bypass", "text", cmds[s].g, "", BotOwner, 0,
                   "set"))
    /\ UNCHANGED <<saver, re_pool, unloaded, finalFlushes, issued, observe,
                   trigger_timeout, now>>

(***************************************************************************)
(* A trigger fires for a message.  The handler (triggerhandler.py) consults *)
(* the cooldown of the Trigger object: with a single timestamp the trigger  *)
(* is allowed when now - last >= duration and the timestamp becomes now;    *)
(* with a list it looks at the entry of the message's channel or author     *)
(* only, which is added or, when it has expired, renewed.  A trigger        *)
(* without a cooldown always fires and records nothing.                     *)
(***************************************************************************)
MaxTicks == 2       \* ticks of the clock in one behaviour
MaxWait == 62       \* seconds a behaviour may let pass in longer waits

\* The channels or authors a message may come from.
Keys == {"k1", "k2"}

\* A mutation of allow: the duration must have been exceeded.
allow_after(cd, key) ==
    CASE cd.last.type = "none" -> TRUE
      [] cd.last.type = "int" -> now - cd.last.at > cd.time
      [] cd.last.type = "list" ->
           \/ key \notin DOMAIN cd.last.entries
           \/ now - cd.last.entries[key] > cd.time

allow(cd, key) ==
    CASE cd.last.type = "none" -> TRUE
      [] cd.last.type = "int" -> now - cd.last.at >= cd.time
      [] cd.last.type = "list" ->
           \/ key \notin DOMAIN cd.last.entries
           \/ now - cd.last.entries[key] >= cd.time

consume(cd, key) ==
    CASE cd.last.type = "none" -> cd
      [] cd.last.type = "int" -> [cd EXCEPT !.last = LastSingle(now)]
      [] cd.last.type = "list" ->
           [cd EXCEPT !.last = LastPerId(Put(cd.last.entries, key, now))]

Fire ==
    /\ ~unloaded
    /\ \E g \in DOMAIN triggers : \E n \in DOMAIN triggers[g] : \E key \in Keys :
         LET oid == triggers[g][n]
             t == heap[oid]
         IN  /\ t.enabled
             /\ IF allow(t.cooldown, key)
                THEN /\ heap' = [heap EXCEPT
                                   ![oid].cooldown = consume(t.cooldown, key)]
                     /\ ev' = Ev("fire", "", "", g, n, key, oid, "fired")
                ELSE /\ heap' = heap
                     /\ ev' = Ev("fire", "", "", g, n, key, oid, "cooldown")
    /\ UNCHANGED <<triggers, store, registered, lock, saver, cmds, re_pool,
                   unloaded, finalFlushes, issued, observe, trigger_timeout,
                   config, now>>

\* Time passes.
Tick ==
    /\ now < StartTime + MaxTicks * TickSeconds
    /\ now' = now + TickSeconds
    /\ ev' = TaskEv("tick", 0, "", "")
    /\ UNCHANGED <<triggers, heap, store, registered, lock, saver, cmds,
                   re_pool, unloaded, finalFlushes, issued, observe,
                   trigger_timeout, config>>

(***************************************************************************)
(* The evaluation of one event against the triggers of its server, step by  *)
(* step.  An evaluation occupies a slot like a command does:                *)
(*   g: the server, user: the scope key of the event, arg.b: the event is a *)
(*   message edit, arg.s: its channel, oid: the trigger last taken up (0:   *)
(*   none yet);                                                             *)
(*   pc: "select"  about to take up the next trigger in order               *)
(*       "match"   the Bounded Matcher runs for trigger oid                 *)
(*       "dispatch"  the actions of multi trigger oid are being attempted,  *)
(*                 arg.n the next one                                       *)
(***************************************************************************)
\* A mutation of default_allow_multiple.
allow_multiple_on == TRUE

\* default_guild["allow_multiple"]
default_allow_multiple == FALSE

\* What the Bounded Matcher returns.
Matches == {"match", "no_match", "timeout"}

\* The values the chance gate may draw: one integer in [0, chance).
Draws(chance) == IF chance = 0 THEN {0} ELSE 0 .. (chance - 1)

\* A mutation of ChancePasses: a chance of 0 never passes.
ChanceZeroBlocks(chance, r) == chance # 0 /\ r = 0

\* The chance gate: a chance of 0 always passes, else the draw must be 0.
ChancePasses(chance, r) == chance = 0 \/ r = 0

\* A mutation of Opted: edits are evaluated for every trigger.
OptedAlways(t, is_edit) == TRUE

\* An edit is evaluated only for a trigger with check_edits.
Opted(t, is_edit) == is_edit => t.check_edits

\* A mutation of Recheck: the gate is not checked again before consuming.
RecheckSkipped(cd, key) == TRUE

\* The cooldown gate, checked again in the step that consumes it.
Recheck(cd, key) == allow(cd, key)

\* A mutation of NextInOrder: the last trigger of the server is taken first.
LastInOrder(g, after) ==
    LET later == {o \in {triggers[g][n] : n \in DOMAIN triggers[g]} : o > after}
    IN  IF later = {} THEN 0
        ELSE CHOOSE o \in later : \A q \in later : q <= o

\* The trigger of server g that follows object `after` in creation order
\* (0: none is left).
NextInOrder(g, after) ==
    LET later == {o \in {triggers[g][n] : n \in DOMAIN triggers[g]} : o > after}
    IN  IF later = {} THEN 0
        ELSE CHOOSE o \in later : \A q \in later : o <= q

\* A mutation of Scoped: an identifier in the allow list lets the event in.
ScopedAllowFirst(t, id) ==
    \/ In(id, t.whitelist)
    \/ ~In(id, t.blacklist) /\ t.whitelist = << >>

\* Step 3 of the selector: the scope identifier of the event is not in the
\* deny list and, when the allow list is not empty, is in the allow list.
Scoped(t, id) ==
    /\ ~In(id, t.blacklist)
    /\ t.whitelist # << >> => In(id, t.whitelist)

\* An event arrives from one of the channels (alone: while nothing else is
\* in progress).
EventBegin(s, guilds, alone, channels) ==
    /\ cmds[s].pc = "idle"
    /\ \A t \in Slots : t < s => cmds[t].pc # "idle"
    /\ alone => \A t \in Slots : cmds[t].pc = "idle"
    /\ ~unloaded
    /\ \E g \in guilds \cap DOMAIN triggers, key \in Keys, is_edit \in BOOLEAN,
          ch \in channels :
         /\ cmds' = [cmds EXCEPT ![s] =
                       [IdleCmd EXCEPT !.pc = "select", !.op = "event",
                                       !.g = g, !.user = key,
                                       !.arg = Arg(0, ch, is_edit)]]
         /\ ev' = Ev("event", "", "", g, "", key, 0, "received")
    /\ UNCHANGED <<triggers, heap, store, registered, lock, saver, re_pool,
                   unloaded, finalFlushes, issued, observe, trigger_timeout,
                   config, now>>

\* Steps 1, 5 and 7 of the selector for the next trigger in order; the
\* evaluation ends when no trigger is left.
EventSelect(s) ==
    /\ cmds[s].pc = "select"
    /\ LET c == cmds[s]
           o == NextInOrder(c.g, c.oid)
           E(n, rep) == Ev("event", "", "", c.g, n, c.user, o, rep)
           skip(rep) ==
               /\ cmds' = [cmds EXCEPT ![s].oid = o,
                                       ![s].name = heap[o].name]
               /\ ev' = E(heap[o].name, rep)
       IN  IF o = 0
           THEN /\ cmds' = [cmds EXCEPT ![s] = IdleCmd]
                /\ ev' = E("", "done")
           ELSE IF ~heap[o].enabled THEN skip("disabled")
           ELSE IF ~Scoped(heap[o], c.arg.s) THEN skip("denied")
           ELSE IF ~Opted(heap[o], c.arg.b) THEN skip("not_edits")
           ELSE IF ~allow(heap[o].cooldown, c.user) THEN skip("cooldown")
           ELSE /\ cmds' = [cmds EXCEPT ![s].oid = o,
                                        ![s].name = heap[o].name,
                                        ![s].pc = "match"]
                /\ ev' = E(heap[o].name, "matching")
    /\ UNCHANGED <<triggers, heap, store, registered, lock, saver, re_pool,
                   unloaded, finalFlushes, issued, observe, trigger_timeout,
                   config, now>>

\* A mutation of Propagates: a timeout ends the evaluation of the event.
TimeoutPropagates(m) == m = "timeout"

\* No result of the matcher is raised to the caller: a timeout is logged and
\* treated as no match.
Propagates(m) == FALSE

\* Steps 8 to 10: the matcher returns; on a match the chance gate is drawn,
\* the cooldown is checked again and consumed, and the trigger is executed.
\* Unless the server allows multiple triggers the evaluation stops there.
EventMatch(s) ==
    /\ cmds[s].pc = "match"
    /\ LET c == cmds[s]
           t == heap[c.oid]
           E(rep) == Ev("event", "", "", c.g, c.name, c.user, c.oid, rep)
           on == [cmds EXCEPT ![s].pc = "select"]
       IN  \E m \in Matches, r \in Draws(t.chance) :
             IF Propagates(m)
             THEN /\ cmds' = [cmds EXCEPT ![s] = IdleCmd]
                  /\ heap' = heap
                  /\ ev' = E("error")
             ELSE IF m # "match"
             THEN /\ cmds' = on /\ heap' = heap /\ ev' = E(m)
             ELSE IF ~ChancePasses(t.chance, r)
             THEN /\ cmds' = on /\ heap' = heap /\ ev' = E("chance")
             ELSE IF ~Recheck(t.cooldown, c.user)
             THEN /\ cmds' = on /\ heap' = heap /\ ev' = E("cooldown")
             ELSE /\ heap' = [heap EXCEPT
                                ![c.oid].cooldown = consume(t.cooldown, c.user)]
                  /\ ev' = E("fired")
                  /\ cmds' = IF t.multi_payload # << >>
                             THEN [cmds EXCEPT ![s].pc = "dispatch",
                                               ![s].arg.n = 1]
                             ELSE IF default_allow_multiple THEN on
                             ELSE [cmds EXCEPT ![s] = IdleCmd]
    /\ UNCHANGED <<triggers, store, registered, lock, saver, re_pool,
                   unloaded, finalFlushes, issued, observe, trigger_timeout,
                   config, now>>

\* What an attempted action reports.
Outcomes == {"ok", "failed"}

\* A mutation of Continues: a failed action ends the dispatch.
ContinuesOnSuccess(outcome) == outcome = "ok"

\* The dispatcher goes on to the next pair whatever the last one reported.
Continues(outcome) == TRUE

\* The Action Dispatcher attempts the next (action, payload) pair of a multi
\* trigger and records its outcome; after the last pair the trigger has
\* been executed.
EventDispatch(s) ==
    /\ cmds[s].pc = "dispatch"
    /\ LET c == cmds[s]
           pairs == heap[c.oid].multi_payload
           done == IF default_allow_multiple
                   THEN [cmds EXCEPT ![s].pc = "select", ![s].arg.n = 0]
                   ELSE [cmds EXCEPT ![s] = IdleCmd]
       IN  \E outcome \in Outcomes :
             /\ ev' = Ev("event", pairs[c.arg.n][1], "", c.g, c.name, c.user,
                         c.oid, outcome)
             /\ cmds' = IF c.arg.n < Len(pairs) /\ Continues(outcome)
                        THEN [cmds EXCEPT ![s].arg.n = c.arg.n + 1]
                        ELSE done
    /\ UNCHANGED <<triggers, heap, store, registered, lock, saver, re_pool,
                   unloaded, finalFlushes, issued, observe, trigger_timeout,
                   config, now>>

\* d seconds pass.
Wait(d) ==
    /\ now + d <= StartTime + MaxWait
    /\ now' = now + d
    /\ ev' = TaskEv("tick", 0, "", "")
    /\ UNCHANGED <<triggers, heap, store, registered, lock, saver, cmds,
                   re_pool, unloaded, finalFlushes, issued, observe,
                   trigger_timeout, config>>

(***************************************************************************)
(* The running cog: a fresh installation whose startup load has completed   *)
(* (nothing persisted, an empty index), the save loop, and moderators       *)
(* invoking commands concurrently.                                          *)
(***************************************************************************)
Fresh(obs) ==
    /\ triggers = [g \in {} |-> EmptyDict]
    /\ heap = << >>
    /\ store = [g \in Guilds |-> EmptyDict]
    /\ registered = {}
    /\ lock = [g \in Guilds |-> 0]
    /\ saver = IdleSaver("sleep")
    /\ cmds = [s \in Slots |-> IdleCmd]
    /\ re_pool = "open"
    /\ unloaded = FALSE
    /\ finalFlushes = 0
    /\ issued = 0
    /\ observe = obs
    /\ trigger_timeout = DefaultTimeout
    /\ config = default_global
    /\ now = StartTime
    /\ ev = NoEv

Init == Fresh(FALSE)

\* The commands moderators race in the running cog: text inserts right after
\* its duplicate-name check, random awaits the responses in between.
RacingKinds == {"text", "random"}

RacingUsers == {"mod1"}

RacingGuilds == {1}

Command(s) ==
    \/ CreateCall(s, RacingGuilds, RacingKinds, RacingUsers, {"foo"}, FALSE)
    \/ CreateResume(s)
    \/ CmdGet(s)
    \/ CmdSet(s)
    \/ RemoveCall(s, RacingGuilds, RacingUsers, FALSE)
    \/ remove_trigger(s)

Next ==
    \/ \E s \in Slots : Command(s)
    \/ SaverStep
    \/ cog_unload

Spec == Init /\ [][Next]_vars

(***************************************************************************)
(* The commands run one after the other: every creation command, every      *)
(* command of the edit group, the list commands and remove, on both paths,  *)
(* by the author of a trigger, another moderator and the two owners.        *)
(***************************************************************************)
InitCmd == Fresh(TRUE)

Creators == {"mod1"}

CommandSeq(s) ==
    \/ CreateCall(s, Guilds, CreateKinds, Creators, {"foo", "("}, TRUE)
    \/ CreateConfirm(s)
    \/ CreateResume(s)
    \/ CmdGet(s)
    \/ CmdSet(s)
    \/ EditCall(s, Guilds, Users, EditCmds, TRUE)
    \/ CtxCommit(s)
    \/ ListCall(s, Guilds, Users, TRUE)
    \/ RemoveCall(s, Guilds, Users, TRUE)
    \/ remove_trigger(s)

NextCmd == \E s \in Slots : CommandSeq(s)

SpecCmd == InitCmd /\ [][NextCmd]_vars

(***************************************************************************)
(* The commands that take a regex, run one after the other in one server:   *)
(* every creation command and the regex command of the edit group.          *)
(***************************************************************************)
RegexGuilds == {1}

CommandRegex(s) ==
    \/ CreateCall(s, RegexGuilds, CreateKinds, Creators, {"foo", "("}, TRUE)
    \/ CreateConfirm(s)
    \/ CreateResume(s)
    \/ CmdGet(s)
    \/ CmdSet(s)
    \/ EditCall(s, RegexGuilds, Users, {"regex"}, TRUE)
    \/ CtxCommit(s)

NextRegex == \E s \in Slots : CommandRegex(s)

SpecRegex == InitCmd /\ [][NextRegex]_vars

(***************************************************************************)
(* The bot owner's settings commands, any number of them at once.           *)
(***************************************************************************)
SettingsCommand(s) ==
    \/ TimeoutCall(s)
    \/ TimeoutConfirm(s)
    \/ TimeoutSet(s)
    \/ TimeoutAssign(s)
    \/ BypassCall(s)
    \/ BypassConfirm(s)
    \/ BypassSet(s)

NextSettings == \E s \in Slots : SettingsCommand(s)

SpecSettings == Init /\ [][NextSettings]_vars

(***************************************************************************)
(* Removal racing with the rest: in one server a moderator creates text     *)
(* triggers, edits their regex and removes them, any of it at once, while   *)
(* the save loop runs and the cog may be unloaded.                          *)
(***************************************************************************)
CommandRemove(s) ==
    \/ CreateCall(s, RacingGuilds, {"text"}, RacingUsers, {"foo"}, FALSE)
    \/ CmdGet(s)
    \/ CmdSet(s)
    \/ EditCall(s, RacingGuilds, RacingUsers, {"regex"}, FALSE)
    \/ CtxCommit(s)
    \/ RemoveCall(s, RacingGuilds, RacingUsers, FALSE)
    \/ remove_trigger(s)

NextRemove ==
    \/ \E s \in Slots : CommandRemove(s)
    \/ SaverStep
    \/ cog_unload

SpecRemove == Init /\ [][NextRemove]_vars

(***************************************************************************)
(* The running cog with a fairly scheduled save loop: the event loop runs   *)
(* the task whenever it can go on, and the storage does not fail for ever.  *)
(***************************************************************************)
SaverProgress ==
    \/ FlushBegin
    \/ FlushEnter
    \/ FlushRecord
    \/ FlushExit
    \/ FlushNext
    \/ after_save_loop

SpecLive == Spec /\ WF_vars(SaverProgress) /\ SF_vars(FlushExit)

(***************************************************************************)
(* The edit group in one server, run one after the other: a moderator       *)
(* creates triggers of the kinds the commands of the group apply to and     *)
(* edits them.                                                              *)
(***************************************************************************)
EditedKinds == {"text", "command", "addrole", "react", "multi"}

CommandEdit(s) ==
    \/ CreateCall(s, RegexGuilds, EditedKinds, Creators, {"foo"}, TRUE)
    \/ CmdGet(s)
    \/ CmdSet(s)
    \/ EditCall(s, RegexGuilds, Creators, EditCmds, TRUE)
    \/ ListCall(s, RegexGuilds, Creators, TRUE)
    \/ CtxCommit(s)

NextEdit == \E s \in Slots : CommandEdit(s)

SpecEdit == InitCmd /\ [][NextEdit]_vars

(***************************************************************************)
(* Cooldowns: a server that holds the text trigger "a" (created by          *)
(* `retrigger text a foo hi`, stored, never edited), cooldown commands run  *)
(* one after the other, and messages that fire the trigger as time passes.  *)
(***************************************************************************)
InitCooldown ==
    LET t == NewTrigger("text", "a", "foo", "mod1", << >>)
    IN  /\ triggers = IndexPut([g \in {} |-> EmptyDict], 1, "a", 1)
        /\ heap = <<t>>
        /\ store = [g \in Guilds |-> IF g = 1 THEN Put(EmptyDict, "a", to_json(t))
                                     ELSE EmptyDict]
        /\ registered = {1}
        /\ lock = [g \in Guilds |-> 0]
        /\ saver = IdleSaver("sleep")
        /\ cmds = [s \in Slots |-> IdleCmd]
        /\ re_pool = "open"
        /\ unloaded = FALSE
        /\ finalFlushes = 0
        /\ issued = 0
        /\ observe = TRUE
        /\ trigger_timeout = DefaultTimeout
        /\ config = default_global
        /\ now = StartTime
        /\ ev = NoEv

CommandCooldown(s) ==
    \/ EditCall(s, RegexGuilds, Creators, {"cooldown"}, TRUE)
    \/ CmdGet(s)
    \/ CmdSet(s)

NextCooldown ==
    \/ \E s \in Slots : CommandCooldown(s)
    \/ Fire
    \/ Tick

SpecCooldown == InitCooldown /\ [][NextCooldown]_vars

(***************************************************************************)
(* One server with trigger a and moderators changing its allow and deny     *)
(* lists concurrently.                                                      *)
(***************************************************************************)
CommandLists(s) ==
    \/ ListCall(s, RegexGuilds, Creators, FALSE)
    \/ CtxCommit(s)

NextLists == \E s \in Slots : CommandLists(s)

SpecLists == InitCooldown /\ [][NextLists]_vars

(***************************************************************************)
(* One server with trigger a, moderators changing its allow and deny lists  *)
(* one command after the other, and events from two channels.               *)
(***************************************************************************)
CommandScope(s) ==
    \/ ListCall(s, RegexGuilds, Creators, TRUE)
    \/ CtxCommit(s)
    \/ EventBegin(s, RegexGuilds, TRUE, {"chan1", "chan2"})
    \/ EventSelect(s)
    \/ EventMatch(s)

NextScope == \E s \in Slots : CommandScope(s)

SpecScope == InitCooldown /\ [][NextScope]_vars

(***************************************************************************)
(* One server, moderators creating multi triggers one command after the     *)
(* other, and events evaluated one at a time.                               *)
(***************************************************************************)
CommandDispatch(s) ==
    \/ CreateCall(s, RegexGuilds, {"multi"}, Creators, {"foo"}, TRUE)
    \/ CmdGet(s)
    \/ CmdSet(s)
    \/ EventBegin(s, RegexGuilds, TRUE, {"chan2"})
    \/ EventSelect(s)
    \/ EventMatch(s)
    \/ EventDispatch(s)

NextDispatch == \E s \in Slots : CommandDispatch(s)

SpecDispatch == InitCmd /\ [][NextDispatch]_vars

(***************************************************************************)
(* One server and moderators creating text triggers and editing the chance *)
(* of triggers concurrently.                                                *)
(***************************************************************************)
CommandRace(s) ==
    \/ CreateCall(s, RegexGuilds, {"text"}, Creators, {"foo"}, FALSE)
    \/ CmdGet(s)
    \/ CmdSet(s)
    \/ EditCall(s, RegexGuilds, Creators, {"chance"}, FALSE)
    \/ CtxCommit(s)

NextRace == \E s \in Slots : CommandRace(s)

SpecRace == InitCmd /\ [][NextRace]_vars

(***************************************************************************)
(* One server with trigger a, moderators creating and editing triggers one  *)
(* command after the other, and events evaluated one at a time.             *)
(***************************************************************************)
SelectKinds == {"text", "ban", "kick", "filter"}

CommandSelect(s) ==
    \/ CreateCall(s, RegexGuilds, SelectKinds, Creators, {"foo"}, TRUE)
    \/ CmdGet(s)
    \/ CmdSet(s)
    \/ EditCall(s, RegexGuilds, Creators, EditCmds, TRUE)
    \/ CtxCommit(s)
    \/ EventBegin(s, RegexGuilds, TRUE, {"chan2"})
    \/ EventSelect(s)
    \/ EventMatch(s)

NextSelect == \E s \in Slots : CommandSelect(s)

SpecSelect == InitCooldown /\ [][NextSelect]_vars

(***************************************************************************)
(* One server with trigger a under a cooldown of 60 seconds set by the      *)
(* cooldown command, events evaluated concurrently, and time passing.       *)
(***************************************************************************)
CooldownSeconds == 60

LedgerStyles == {"guild", "channel", "user"}

InitLedger ==
    \E style \in LedgerStyles :
      LET t == cooldown(NewTrigger("text", "a", "foo", "mod1", << >>), "mod1",
                        Arg(CooldownSeconds, style, FALSE)).t
      IN  /\ triggers = IndexPut([g \in {} |-> EmptyDict], 1, "a", 1)
          /\ heap = <<t>>
          /\ store = [g \in Guilds |->
                        IF g = 1 THEN Put(EmptyDict, "a", to_json(t))
                        ELSE EmptyDict]
          /\ registered = {1}
          /\ lock = [g \in Guilds |-> 0]
          /\ saver = IdleSaver("sleep")
          /\ cmds = [s \in Slots |-> IdleCmd]
          /\ re_pool = "open"
          /\ unloaded = FALSE
          /\ finalFlushes = 0
          /\ issued = 0
          /\ observe = TRUE
          /\ trigger_timeout = DefaultTimeout
          /\ config = default_global
          /\ now = StartTime
          /\ ev = NoEv

NextLedger ==
    \/ \E s \in Slots : EventBegin(s, RegexGuilds, FALSE, {"chan2"})
    \/ \E s \in Slots : EventSelect(s)
    \/ \E s \in Slots : EventMatch(s)
    \/ Wait(30)
    \/ Wait(31)

SpecLedger == InitLedger /\ [][NextLedger]_vars

(***************************************************************************)
(* From startup on: the load of any persisted store, then the save loop,    *)
(* while a moderator creates text triggers in one server.                   *)
(***************************************************************************)
InitStart ==
    /\ triggers = [g \in {} |-> EmptyDict]
    /\ heap = << >>
    /\ store \in [Guilds -> PersistedLists]
    /\ registered = {g \in Guilds : store[g] # EmptyDict}
    /\ Cardinality(UNION {{<<g, n>> : n \in DOMAIN store[g]} : g \in Guilds})
          <= MaxObjs
    /\ lock = [g \in Guilds |-> 0]
    /\ saver = IdleSaver("before")
    /\ cmds = [s \in Slots |-> IdleCmd]
    /\ re_pool = "open"
    /\ unloaded = FALSE
    /\ finalFlushes = 0
    /\ issued = 0
    /\ observe = FALSE
    /\ trigger_timeout = DefaultTimeout
    /\ config = default_global
    /\ now = StartTime
    /\ ev = NoEv

CommandStart(s) ==
    \/ CreateCall(s, RacingGuilds, {"text"}, RacingUsers, {"foo"}, TRUE)
    \/ CmdGet(s)
    \/ CmdSet(s)

NextStart ==
    \/ NextLoad
    \/ FlushBegin
    \/ FlushEnter
    \/ FlushRecord
    \/ FlushExit
    \/ FlushNext
    \/ \E s \in Slots : CommandStart(s)

SpecStart == InitStart /\ [][NextStart]_vars

(***************************************************************************)
(* Properties of the startup load (SpecLoad).                               *)
(***************************************************************************)
LoadDone == saver.pc = "sleep"

\* C6: when a persisted record fails to deserialize, the load logs it, omits
\* the record and goes on: before_save_loop never ends by an exception,
\* whatever the position of the failing record, and once it has completed
\* every record that deserializes is in the index of its server.
C6_LoadSkipsFailedRecords ==
    /\ saver.pc # "crashed"
    /\ LoadDone =>
         \A g \in registered : \A n \in DOMAIN store[g] :
            from_json_ok(store[g][n]) =>
               /\ InIndex(g, n)
               /\ heap[triggers[g][n]] = from_json(store[g][n])

\* C7: after the startup load, triggers[g] holds only triggers deserialized
\* from the trigger_list persisted for g itself.
C7_IndexFromOwnList ==
    LoadDone =>
      \A g \in DOMAIN triggers : \A n \in DOMAIN triggers[g] :
         /\ n \in DOMAIN store[g]
         /\ from_json_ok(store[g][n])
         /\ heap[triggers[g][n]] = from_json(store[g][n])

(***************************************************************************)
(* Properties of the running cog (Spec).                                    *)
(***************************************************************************)
\* C1: a creation command never replaces an existing trigger: a name that is
\* in a server's index keeps the Trigger object it has, also when another
\* creation for the same name was suspended between its duplicate-name check
\* and its insert.
C1_CreationNeverReplaces ==
    [][\A g \in Guilds, n \in Names :
         (InIndex(g, n) /\ g \in DOMAIN triggers' /\ n \in DOMAIN triggers'[g])
            => triggers'[g][n] = triggers[g][n]]_vars

\* C3: the flush works on a snapshot: a trigger or a server entering or
\* leaving the index while save_all_triggers is suspended does not make the
\* flush fail (the only RuntimeError a flush can raise is the one of a dict
\* that changed size under its iteration).
C3_FlushToleratesChanges == saver.error # "RuntimeError"

\* C4: a failed run of the flush never stops the save loop while the cog
\* stays loaded: the task is still there for the next 120-second cycle.
C4_FailedFlushIsRetried == ~unloaded => saver.pc # "dead"

\* C5: when the cog is unloaded the pool is closed, the save loop cancelled
\* and, once the task has ended, exactly one complete final flush was run
\* (unless the storage itself failed).
C5_OneFinalFlush ==
    /\ unloaded => re_pool = "closed"
    /\ (unloaded /\ saver.pc \in {"dead", "done"} /\ saver.error # "OSError")
          => finalFlushes = 1

(***************************************************************************)
(* Properties of the commands run one after the other (SpecCmd, and        *)
(* SpecRegex for the commands that take a regex).  They are                 *)
(* stated over the step a command takes: ev' is what the step reported, the *)
(* unprimed variables are the state the command found.  A report of         *)
(* "invalid_regex" comes from a converter or the dispatcher, before the     *)
(* command itself runs.                                                     *)
(***************************************************************************)
Unchanged == UNCHANGED <<triggers, heap, store>>

\* The steps in which a creation command decides about the name it was given.
CreateDecides ==
    /\ ev'.op = "create"
    /\ ev'.report \notin {"invalid_regex", "confirm?", "get", "trigger_set"}

\* C2 as stated: run without interleaving, every creation command given a
\* name that is already a key of the server's index reports 'already a
\* trigger name' and leaves index, trigger and store unchanged.
C2_DuplicateNameReported ==
    [][(CreateDecides /\ InIndex(ev'.g, ev'.name))
          => (ev'.report = "already_exists" /\ Unchanged)]_vars

\* C2 as amended: run without interleaving, every creation command given a
\* name that is already a key of the server's index leaves index, trigger and
\* store unchanged and reports 'already a trigger name' - mock only after the
\* invoker has confirmed; declined or timed out it reports 'Not creating
\* trigger' instead.
C2_DuplicateNameRejected ==
    [][(CreateDecides /\ InIndex(ev'.g, ev'.name))
          => /\ Unchanged
             /\ \/ ev'.report = "already_exists"
                \/ ev'.kind = "mock" /\ ev'.report = "not_creating"]_vars

\* A mock command for an existing name was confirmed and then rejected.
C2_Witness ==
    /\ ev.op = "create" /\ ev.kind = "mock"
    /\ ev.report = "already_exists"
    /\ ev.oid # 0 /\ InIndex(ev.g, ev.name) /\ triggers[ev.g][ev.name] = ev.oid

\* C8: every command of the edit group changes a trigger only when can_edit
\* holds for the invoker; otherwise it reports 'not authorized' and leaves
\* the trigger and the store unchanged.
C8_EditNeedsCanEdit ==
    [][(/\ ev'.op = "edit"
        /\ ev'.report # "invalid_regex"
        /\ ev'.oid # 0
        /\ ~can_edit(ev'.user, heap[ev'.oid]))
          => (ev'.report = "not_authorized" /\ Unchanged)]_vars

\* C9: an edit, allow/deny-list or remove command given a name that resolves
\* to no trigger of the server reports 'doesn't exist' and changes neither
\* the index nor the store, on the text path and on the slash path.
C9_UnknownTriggerReported ==
    [][(/\ ev'.op \in {"edit", "list_edit", "remove"}
        /\ ev'.report # "invalid_regex"
        /\ ev'.oid = 0)
          => (ev'.report = "no_trigger" /\ Unchanged)]_vars

\* C10: every creation command and edit_regex reject a regex source that
\* does not compile before anything is changed: the rejecting step leaves
\* index, triggers and store as they were, and no trigger and no stored
\* record ever carries a source that does not compile - ban, kick and filter
\* and the slash path included.
C10_InvalidPatternRejected ==
    [][/\ (/\ ev'.op \in {"create", "edit"}
           /\ ev'.op = "edit" => ev'.kind = "regex"
           /\ ev'.report \in {"invalid_regex", "error"}) => Unchanged
       /\ \A i \in DOMAIN heap' : Compiles(heap'[i].regex.pattern)
       /\ \A g \in Guilds : \A n \in DOMAIN store'[g] :
             Compiles(store'[g][n].regex)]_vars

\* edit_regex, invoked on the slash path for an existing trigger by someone
\* who may edit it, was given a source that does not compile and raised.
C10_Witness ==
    /\ ev.op = "edit" /\ ev.kind = "regex" /\ ev.path = "slash"
    /\ ev.oid # 0 /\ can_edit(ev.user, heap[ev.oid])
    /\ ev.report = "error"

(***************************************************************************)
(* Properties of the settings commands (SpecSettings).                      *)
(***************************************************************************)
\* C11: the match timeout, persisted or in memory, is set to a value above 1
\* only by a timeout command whose confirmation was answered with yes; when
\* the answer is no or the wait times out, both values stay as they are.
C11_TimeoutRaiseConfirmed ==
    [][/\ (config'.trigger_timeout # config.trigger_timeout
             /\ config'.trigger_timeout > 1)
          => \E s \in Slots : /\ cmds[s].pc = "set_timeout"
                              /\ cmds[s].ok
                              /\ cmds'[s].pc = "assign_timeout"
       /\ (trigger_timeout' # trigger_timeout /\ trigger_timeout' > 1)
          => \E s \in Slots : /\ cmds[s].pc = "assign_timeout"
                              /\ cmds[s].ok
                              /\ cmds'[s].pc = "idle"
       /\ \A s \in Slots :
            (cmds[s].pc = "ask_timeout" /\ cmds'[s].pc = "idle")
            => /\ config'.trigger_timeout = config.trigger_timeout
               /\ trigger_timeout' = trigger_timeout]_vars

\* A confirmed timeout command has raised both values.
C11_Witness ==
    /\ config.trigger_timeout > 1
    /\ trigger_timeout = config.trigger_timeout
    /\ \A s \in Slots : cmds[s].pc = "idle"

\* C12: every server's bypass flag is false by default; it turns from false
\* to true only by a bypass command for that server whose confirmation was
\* answered with yes; a no or a timed-out wait changes no setting; turning it
\* off asks nothing and stores false; a bypass command changes no other
\* server's flag.
C12_BypassConfirmed ==
    /\ \A g \in Guilds : ~config.bypass[g]
    /\ [][/\ \A g \in Guilds :
               (~config.bypass[g] /\ config'.bypass[g])
               => \E s \in Slots : /\ cmds[s].pc = "set_bypass"
                                   /\ cmds[s].g = g
                                   /\ cmds[s].ok
                                   /\ cmds'[s].pc = "idle"
          /\ \A s \in Slots :
               /\ (cmds[s].pc = "ask_bypass" /\ cmds'[s].pc = "idle")
                  => config' = config
               /\ (cmds[s].pc = "idle" /\ cmds'[s].op = "bypass"
                     /\ ~cmds'[s].arg.b)
                  => cmds'[s].pc = "set_bypass"
               /\ (cmds[s].pc = "set_bypass" /\ cmds'[s].pc = "idle")
                  => /\ config'.bypass[cmds[s].g] = cmds[s].arg.b
                     /\ \A h \in Guilds \ {cmds[s].g} :
                          config'.bypass[h] = config.bypass[h]]_vars

\* Bypass has been turned on in one server and not in the other.
C12_Witness ==
    /\ config.bypass[1]
    /\ ~config.bypass[2]
    /\ \A s \in Slots : cmds[s].pc = "idle"

\* C13: both match timeouts are 1 by default and are integers of at least 1
\* in every state; a timeout command given a value below 1 stores 1 in both.
C13_TimeoutAtLeastOne ==
    /\ config.trigger_timeout = 1 /\ trigger_timeout = 1
    /\ [](/\ config.trigger_timeout \in Nat /\ config.trigger_timeout >= 1
          /\ trigger_timeout \in Nat /\ trigger_timeout >= 1)
    /\ [][\A s \in Slots :
            (cmds[s].op = "timeout" /\ cmds[s].arg.n < 1)
            => /\ (cmds[s].pc = "set_timeout" /\ cmds'[s].pc = "assign_timeout")
                  => config'.trigger_timeout = 1
               /\ (cmds[s].pc = "assign_timeout" /\ cmds'[s].pc = "idle")
                  => trigger_timeout' = 1]_vars

\* A timeout command given 0 is about to assign what it stored.
C13_Witness ==
    \E s \in Slots : /\ cmds[s].pc = "assign_timeout"
                     /\ cmds[s].arg.n < 1
                     /\ config.trigger_timeout = 1

(***************************************************************************)
(* Properties of removal (SpecRemove).                                      *)
(***************************************************************************)
\* C14: while a name is neither in a server's index nor in its durable
\* trigger_list (it was removed, or never created), only a step of a creation
\* command for that name puts a record under it into the index or the list:
\* no edit command and no flush that was suspended brings it back.
C14_RemovedStaysRemoved ==
    [][\A g \in Guilds, n \in Names :
         (/\ ~InIndex(g, n)
          /\ n \notin DOMAIN store[g]
          /\ \/ n \in DOMAIN store'[g]
             \/ (g \in DOMAIN triggers' /\ n \in DOMAIN triggers'[g]))
         => \E s \in Slots :
              /\ cmds'[s] # cmds[s]
              /\ \/ cmds[s].op = "create" /\ cmds[s].g = g /\ cmds[s].name = n
                 \/ cmds'[s].op = "create" /\ cmds'[s].g = g
                      /\ cmds'[s].name = n]_vars

(***************************************************************************)
(* Properties of the save loop under fair scheduling (SpecLive).            *)
(***************************************************************************)
Quiet == \A s \in Slots : cmds[s].pc = "idle"

\* Every trigger of the index has its current serialization in the store.
Synced ==
    \A g \in DOMAIN triggers : \A n \in DOMAIN triggers[g] :
      /\ n \in DOMAIN store[g]
      /\ store[g][n] = to_json(heap[triggers[g][n]])

\* C15: the store catches up with the index: from a state of the loaded cog
\* in which no command is running, unless a further command runs (or the cog
\* is unloaded), the fairly scheduled save loop eventually leaves every
\* trigger of every server's index stored under its name with its current
\* serialization.
C15_StoreCatchesUp == (Quiet /\ ~unloaded) ~> (Synced \/ ~Quiet \/ unloaded)

(***************************************************************************)
(* Properties of the edit group (SpecEdit).                                 *)
(***************************************************************************)
\* The field each command of the edit group assigns.
FieldOf(e) ==
    CASE e = "ocr" -> "ocr_search"
      [] e = "readfilenames" -> "read_filenames"
      [] e = "usermention" -> "user_mention"
      [] e = "everyonemention" -> "everyone_mention"
      [] e = "rolemention" -> "role_mention"
      [] e = "edited" -> "check_edits"
      [] e = "deleteafter" -> "delete_after"
      [] e = "ignorecommands" -> "ignore_commands"
      [] e \in {"text", "command", "role", "react"} -> "text"
      [] e \in {"enable", "disable"} -> "enabled"
      [] e \in {"whitelist_add", "whitelist_remove"} -> "whitelist"
      [] e \in {"blacklist_add", "blacklist_remove"} -> "blacklist"
      [] OTHER -> e

\* C16: a successful edit command changes one field of the trigger it was
\* given and nothing else: at each of its steps every other field of that
\* trigger, every other trigger, the index and the settings stay as they
\* are, and its last step stores the whole serialized trigger under its name
\* in the server's trigger_list, leaving the other records alone.
C16_EditReplacesOneField ==
    [][(/\ ev'.op \in {"edit", "list_edit"}
        /\ ev'.report \in {"editing", "get", "edited"})
       => /\ DOMAIN heap' = DOMAIN heap
          /\ \A o \in DOMAIN heap :
               \A f \in DOMAIN heap[o] :
                 (o # ev'.oid \/ f # FieldOf(ev'.kind))
                 => heap'[o][f] = heap[o][f]
          /\ triggers' = triggers
          /\ config' = config
          /\ trigger_timeout' = trigger_timeout
          /\ IF ev'.report = "edited"
             THEN store' = [store EXCEPT ![ev'.g] =
                              Put(store[ev'.g], ev'.name,
                                  to_json(heap'[ev'.oid]))]
             ELSE store' = store]_vars

\* edit chance has set the chance of a trigger and stored the record.
C16_Witness ==
    /\ ev.op = "edit"
    /\ ev.kind = "chance"
    /\ ev.report = "edited"
    /\ heap[ev.oid].chance = 4
    /\ store[ev.g][ev.name] = to_json(heap[ev.oid])

(***************************************************************************)
(* Properties of cooldowns (SpecCooldown).                                  *)
(***************************************************************************)
StoredScopes == {"guild", "channel", "author"}

\* C17: the cooldown of every trigger, cached or stored, is empty or has a
\* scope that is one of guild, channel, author (the aliases server, user and
\* member being normalized), and a cooldown command given a style outside
\* guild, server, channel, user, member changes neither trigger nor store.
C17_CooldownScopeNormalized ==
    /\ [](/\ \A o \in DOMAIN heap :
               \/ heap[o].cooldown = NoCooldown
               \/ heap[o].cooldown.style \in StoredScopes
          /\ \A g \in Guilds : \A n \in DOMAIN store[g] :
               \/ store[g][n].cooldown = NoCooldown
               \/ store[g][n].cooldown.style \in StoredScopes)
    /\ [][(ev'.kind = "cooldown" /\ ev'.report = "rejected")
          => Unchanged]_vars

\* C18: a cooldown of guild or channel scope holds a single last-fire
\* timestamp, 0 when the command has set it; a cooldown of author scope
\* holds a per-identity collection, empty when the command has set it.
C18_CooldownLastFireShape ==
    /\ [](\A o \in DOMAIN heap :
            LET cd == heap[o].cooldown
            IN  /\ cd.style \in {"guild", "channel"} => cd.last.type = "int"
                /\ cd.style = "author" => cd.last.type = "list")
    /\ [][(ev'.op = "edit" /\ ev'.kind = "cooldown" /\ ev'.report = "get")
          => LET cd == heap'[ev'.oid].cooldown
             IN  /\ cd.style \in {"guild", "channel"}
                    => cd.last = LastSingle(0)
                 /\ cd.style = "author"
                    => cd.last = LastPerId(EmptyDict)]_vars

\* C19: a cooldown command with a valid style and time <= 0 leaves the
\* trigger without any cooldown, in the cached trigger and in the record it
\* writes to the store, whatever cooldown the trigger had; with time > 0
\* the duration of the cached and of the written cooldown is the given time.
C19_CooldownTimeStored ==
    [][\A s \in Slots :
         LET c == cmds[s]
             Right(cd) == IF c.arg.n <= 0 THEN cd = NoCooldown
                          ELSE cd.time = c.arg.n
         IN  (c.op = "edit" /\ c.kind = "cooldown")
             => /\ (c.pc = "get" /\ cmds'[s].pc = "set")
                   => Right(heap'[c.oid].cooldown)
                /\ (c.pc = "set" /\ cmds'[s].pc = "idle")
                   => /\ c.name \in DOMAIN store'[c.g]
                      /\ Right(store'[c.g][c.name].cooldown)]_vars

\* A cooldown command with time <= 0 has cleared the cached cooldown of a
\* trigger whose stored record still shows the cooldown set before.
C19_Witness ==
    \E s \in Slots :
      /\ cmds[s].pc = "set"
      /\ cmds[s].kind = "cooldown"
      /\ cmds[s].arg.n <= 0
      /\ heap[cmds[s].oid].cooldown = NoCooldown
      /\ store[cmds[s].g][cmds[s].name].cooldown # NoCooldown

\* C20: while a trigger keeps a cooldown of the same scope, no step, a
\* firing or a command, moves a recorded last-fire time backwards: not the
\* single timestamp and not the timestamp of any identity.
C20_LastFireNeverDecreases ==
    [][\A o \in DOMAIN heap :
         LET a == heap[o].cooldown
             b == heap'[o].cooldown
         IN  (a # NoCooldown /\ b # NoCooldown /\ a.style = b.style)
             => /\ b.last.at >= a.last.at
                /\ \A k \in DOMAIN a.last.entries :
                     /\ k \in DOMAIN b.last.entries
                     /\ b.last.entries[k] >= a.last.entries[k]]_vars

(***************************************************************************)
(* Properties of multi triggers (SpecEdit).                                 *)
(***************************************************************************)
\* The actions of a trigger with a multi payload pair up with the payload.
MultiPaired(t) ==
    /\ Len(t.response_type) >= 1
    /\ Len(t.response_type) = Len(t.multi_payload)
    /\ \A i \in DOMAIN t.multi_payload :
         t.response_type[i] = t.multi_payload[i][1]

\* C21: the trigger a multi command creates has at least one action, as many
\* actions as payload entries, and the i-th action is the kind of the i-th
\* payload entry; a multi command given no actions creates nothing; and the
\* relation holds for every multi trigger in every state, cached or stored,
\* whatever commands run later.
C21_MultiActionsMatchPayload ==
    /\ [](/\ \A o \in DOMAIN heap :
               heap[o].multi_payload # << >> => MultiPaired(heap[o])
          /\ \A g \in Guilds : \A n \in DOMAIN store[g] :
               store[g][n].multi_payload # << >> => MultiPaired(store[g][n]))
    /\ [][/\ (ev'.kind = "multi" /\ ev'.report = "inserted")
             => /\ Len(heap') = Len(heap) + 1
                /\ heap'[Len(heap')].multi_payload # << >>
                /\ MultiPaired(heap'[Len(heap')])
          /\ (ev'.kind = "multi" /\ ev'.report = "rejected")
             => Unchanged]_vars

\* An edit command has changed and stored a trigger created by multi.
C21_Witness ==
    /\ ev.op = "edit"
    /\ ev.report = "edited"
    /\ heap[ev.oid].multi_payload = MultiReact
    /\ store[ev.g][ev.name] = to_json(heap[ev.oid])

(***************************************************************************)
(* Properties of trigger names (SpecStart).                                 *)
(***************************************************************************)
\* C22: in every state each entry of the index sits under the name of its
\* trigger, and so does every record of the durable trigger_list and of the
\* lists a command or the flush is about to write: no step changes the name
\* of a trigger object.
C22_NameIsKey ==
    /\ [](/\ \A g \in DOMAIN triggers : \A k \in DOMAIN triggers[g] :
               heap[triggers[g][k]].name = k
          /\ \A g \in Guilds : \A k \in DOMAIN store[g] :
               store[g][k].name = k
          /\ \A k \in DOMAIN saver.tl : saver.tl[k].name = k
          /\ \A s \in Slots : \A k \in DOMAIN cmds[s].tl :
               cmds[s].tl[k].name = k)
    /\ [][\A o \in DOMAIN heap : heap'[o].name = heap[o].name]_vars

\* The flush has written a created trigger next to a loaded record.
C22_Witness ==
    /\ saver.pc = "exiting"
    /\ saver.tl # saver.tl0
    /\ store[saver.cur] = saver.tl
    /\ Cardinality(DOMAIN store[saver.cur]) = 2
    /\ Cardinality(DOMAIN triggers[saver.cur]) = 2


(***************************************************************************)
(* Properties of single edit commands (SpecEdit).                           *)
(***************************************************************************)
PayloadEdits == {"text", "command", "role", "react"}

\* C23: edit text, edit command, edit role and edit react given a trigger
\* that holds a multi payload are refused: no step of such a command
\* reports an edit, changes a trigger or writes the store.
C23_MultiPayloadNotEdited ==
    [][(/\ ev'.op = "edit"
        /\ ev'.kind \in PayloadEdits
        /\ ev'.oid \in DOMAIN heap
        /\ heap[ev'.oid].multi_payload # << >>)
       => /\ ev'.report \notin {"editing", "edited"}
          /\ heap' = heap
          /\ store' = store]_vars


(***************************************************************************)
(* Properties of the selector (SpecSelect).                                 *)
(***************************************************************************)
\* C24: the chance of every trigger, cached or stored, is an integer >= 0;
\* edit chance sets it to the requested value, or to 0 when the request is
\* negative, and stores it; and an event is never stopped by the chance
\* gate of a trigger whose chance is 0.
C24_ChanceNeverNegative ==
    /\ [](/\ \A o \in DOMAIN heap : heap[o].chance \in Nat
          /\ \A g \in Guilds : \A n \in DOMAIN store[g] :
               store[g][n].chance \in Nat)
    /\ [][/\ \A s \in Slots :
               (/\ cmds[s].pc = "idle"
                /\ cmds'[s].pc = "ctx"
                /\ cmds'[s].kind = "chance")
               => heap'[cmds'[s].oid].chance =
                    IF cmds'[s].arg.n < 0 THEN 0 ELSE cmds'[s].arg.n
          /\ (ev'.op = "edit" /\ ev'.kind = "chance" /\ ev'.report = "edited")
             => store'[ev'.g][ev'.name].chance = heap[ev'.oid].chance
          /\ (ev'.op = "event" /\ ev'.oid \in DOMAIN heap
              /\ heap[ev'.oid].chance = 0)
             => ev'.report # "chance"]_vars

\* edit chance was given -1 for a trigger stored with chance 4: it holds 0.
C24_Witness ==
    /\ ev.op = "edit"
    /\ ev.kind = "chance"
    /\ ev.report = "editing"
    /\ \E s \in Slots : cmds[s].pc = "ctx" /\ cmds[s].arg.n = -1
    /\ store[ev.g][ev.name].chance = 4
    /\ heap[ev.oid].chance = 0


\* What a step of enable or disable does: the call sets the flag of the
\* trigger it was given and nothing else, the commit stores that trigger
\* under its name; the index is left alone by both.
EnableDisableStep ==
    (ev'.op = "edit" /\ ev'.kind \in {"enable", "disable"}
     /\ ev'.report \in {"editing", "edited"})
    => /\ triggers' = triggers
       /\ InIndex(ev'.g, ev'.name)
       /\ IF ev'.report = "editing"
          THEN /\ heap' = [heap EXCEPT ![ev'.oid].enabled = (ev'.kind = "enable")]
               /\ store' = store
          ELSE /\ heap' = heap
               /\ store' = [store EXCEPT ![ev'.g] =
                              Put(store[ev'.g], ev'.name, to_json(heap[ev'.oid]))]

Disabled(t) == disable_trigger(t, "mod1", NoArg).t

Enabled(t) == enable_trigger(t, "mod1", NoArg).t

\* C26 as stated: disable sets enabled to false and enable sets it to true,
\* the trigger stays in the index and the store and no other field changes;
\* each is idempotent; and enable after disable gives back the record there
\* was before the disable, whatever that record was.
C26_EnableRestoresAnyRecord ==
    /\ [][EnableDisableStep]_vars
    /\ [](\A o \in DOMAIN heap :
            /\ Disabled(Disabled(heap[o])) = Disabled(heap[o])
            /\ Enabled(Enabled(heap[o])) = Enabled(heap[o])
            /\ Enabled(Disabled(heap[o])) = heap[o])

\* C26, amended: the same, with enable after disable giving back the record
\* there was before the disable when that record was enabled.
C26_EnableRestoresEnabledRecord ==
    /\ [][EnableDisableStep]_vars
    /\ [](\A o \in DOMAIN heap :
            /\ Disabled(Disabled(heap[o])) = Disabled(heap[o])
            /\ Enabled(Enabled(heap[o])) = Enabled(heap[o])
            /\ heap[o].enabled => Enabled(Disabled(heap[o])) = heap[o]
            /\ to_json(Enabled(Disabled(heap[o]))).enabled)

\* enable has set the flag of a trigger that a disable had stored as disabled.
C26_Witness ==
    /\ ev.op = "edit"
    /\ ev.kind = "enable"
    /\ ev.report = "editing"
    /\ heap[ev.oid].enabled
    /\ ~store[ev.g][ev.name].enabled

\* C27: the selector takes up a message edit only for a trigger with
\* check_edits; ban, kick and filter create their trigger with check_edits
\* true; and a step changes the flag of a trigger only as the edited command
\* given that trigger, which flips it.
C27_EditsOnlyWhenOptedIn ==
    [][/\ \A s \in Slots :
            (cmds[s].pc = "select" /\ cmds'[s].pc = "match" /\ cmds[s].arg.b)
            => heap[cmds'[s].oid].check_edits
       /\ (ev'.op = "create" /\ ev'.report = "inserted"
           /\ ev'.kind \in {"ban", "kick", "filter"})
          => /\ Len(heap') = Len(heap) + 1
             /\ heap'[Len(heap')].check_edits
       /\ \A o \in DOMAIN heap :
            heap'[o].check_edits # heap[o].check_edits
            => /\ ev'.op = "edit"
               /\ ev'.kind = "edited"
               /\ ev'.oid = o
       /\ (ev'.op = "edit" /\ ev'.kind = "edited" /\ ev'.report = "editing")
          => heap'[ev'.oid].check_edits = ~heap[ev'.oid].check_edits]_vars

\* The matcher runs on a message edit for a trigger that ban created.
C27_Witness ==
    /\ ev.op = "event"
    /\ ev.report = "matching"
    /\ \E s \in Slots : cmds[s].pc = "match" /\ cmds[s].arg.b
    /\ heap[ev.oid].response_type = <<"ban">>
    /\ heap[ev.oid].check_edits

\* C30: an event takes up the triggers of its server one by one in creation
\* order, none left out and none twice, and with allow_multiple at its
\* default the step that executes a trigger ends the evaluation of the
\* event: no event executes more than one trigger, and the one it executes
\* is the first in that order to pass every gate.
C30_FirstMatchOnly ==
    [][\A s \in Slots :
         LET c == cmds[s]
             d == cmds'[s]
             mine == {triggers[c.g][n] : n \in DOMAIN triggers[c.g]}
         IN  /\ (c.pc = "select" /\ d # c /\ d.pc # "idle")
                => /\ d.oid \in mine
                   /\ d.oid > c.oid
                   /\ \A q \in mine : ~(c.oid < q /\ q < d.oid)
             /\ (c.pc = "select" /\ d # c /\ d.pc = "idle")
                => \A q \in mine : q <= c.oid
             /\ (c.pc = "match" /\ d # c)
                => /\ (ev'.report = "fired") <=> (d.pc = "idle")
                   /\ ev'.report # "fired"
                      => d.pc = "select" /\ d.oid = c.oid]_vars

\* The first of two enabled triggers was executed and the evaluation of the
\* event has stopped.
C30_Witness ==
    /\ ev.op = "event"
    /\ ev.report = "fired"
    /\ ev.oid = 1
    /\ InIndex(ev.g, "b")
    /\ triggers[ev.g]["b"] = 2
    /\ heap[2].enabled
    /\ \A s \in Slots : cmds[s].pc = "idle"

\* C33: when the matcher times out the step reports the timeout, changes
\* no trigger and leaves the event with the selector, which goes on to the
\* triggers after that one; no step of an event reports an error.
C33_TimeoutIsNoMatch ==
    [][/\ \A s \in Slots :
            LET c == cmds[s]
                d == cmds'[s]
            IN  /\ (c.pc = "match" /\ d # c)
                   => ev'.report \in {"fired", "chance", "cooldown",
                                      "no_match", "timeout"}
                /\ (c.pc = "match" /\ d # c /\ ev'.report = "timeout")
                   => /\ d = [c EXCEPT !.pc = "select"]
                      /\ heap' = heap
       /\ ev'.op = "event" => ev'.report # "error"]_vars

\* The matcher timed out on the first of two enabled triggers and the
\* selector is about to take up the second.
C33_Witness ==
    /\ ev.op = "event"
    /\ ev.report = "timeout"
    /\ ev.oid = 1
    /\ InIndex(ev.g, "b")
    /\ triggers[ev.g]["b"] = 2
    /\ heap[2].enabled
    /\ \E s \in Slots : cmds[s].pc = "select" /\ cmds[s].oid = 1

(***************************************************************************)
(* Properties of the allow and deny lists (SpecLists).                      *)
(***************************************************************************)
NoDuplicates(seq) == \A i, j \in DOMAIN seq : seq[i] = seq[j] => i = j

\* C25: in every state, whatever add and remove commands have run and
\* however they interleaved, no identifier occurs twice in the allow list
\* or in the deny list of a trigger, cached or stored.
C25_ListsHaveNoDuplicates ==
    /\ \A o \in DOMAIN heap :
         NoDuplicates(heap[o].whitelist) /\ NoDuplicates(heap[o].blacklist)
    /\ \A g \in Guilds : \A n \in DOMAIN store[g] :
         /\ NoDuplicates(store[g][n].whitelist)
         /\ NoDuplicates(store[g][n].blacklist)


\* C36: when an allowlist remove or blocklist remove command for an
\* identifier completes, the identifier is not in that list of the trigger,
\* cached or stored, whatever add commands ran before and however they
\* interleaved.
C36_RemovedIsAbsent ==
    [][(/\ ev'.op = "list_edit"
        /\ ev'.kind \in {"whitelist_remove", "blacklist_remove"}
        /\ ev'.report \in {"edited", "done"})
       => \A s \in Slots :
            (cmds[s].pc = "ctx" /\ cmds'[s].pc = "idle")
            => /\ ~ListHas(ev'.kind, heap'[ev'.oid], cmds[s].arg.s)
               /\ ~ListHas(ev'.kind, store'[ev'.g][ev'.name],
                           cmds[s].arg.s)]_vars

(***************************************************************************)
(* Properties of the cooldown gate (SpecLedger).                            *)
(***************************************************************************)
\* A last firing is on record for the scope key.
Recorded(cd, key) ==
    \/ cd.last.type = "int"
    \/ cd.last.type = "list" /\ key \in DOMAIN cd.last.entries

\* The last-fire time on record for the scope key.
LastOf(cd, key) ==
    IF cd.last.type = "int" THEN cd.last.at ELSE cd.last.entries[key]

\* C28: when the selector brings an event to the cooldown gate of a trigger
\* whose cooldown has guild or channel scope, the event passes exactly when
\* now - last >= duration, last being the last firing on record for the
\* event's scope key (it passes when none is on record); so under a channel
\* cooldown of 60 seconds, after a firing at time t an event of the same
\* channel is denied at t + 30 and passes at t + 61.
C28_AllowedWhenDurationPassed ==
    [][\A s \in Slots :
         LET c == cmds[s]
             o == cmds'[s].oid
             cd == heap[o].cooldown
         IN  (/\ c.pc = "select"
              /\ ev'.report \in {"matching", "cooldown"}
              /\ cmds'[s] # c
              /\ cd.style \in {"guild", "channel"})
             => /\ (ev'.report = "matching")
                   <=> (Recorded(cd, c.user)
                        => now - LastOf(cd, c.user) >= cd.time)
                /\ (/\ cd.style = "channel"
                    /\ cd.time = 60
                    /\ Recorded(cd, c.user))
                   => /\ now = LastOf(cd, c.user) + 30
                         => ev'.report = "cooldown"
                      /\ now = LastOf(cd, c.user) + 61
                         => ev'.report = "matching"]_vars

\* An event passes the gate of a channel cooldown of 60 seconds 61 seconds
\* after the trigger fired in the same channel.
C28_Witness ==
    /\ ev.op = "event"
    /\ ev.report = "matching"
    /\ heap[ev.oid].cooldown.style = "channel"
    /\ heap[ev.oid].cooldown.time = 60
    /\ Recorded(heap[ev.oid].cooldown, ev.user)
    /\ now = LastOf(heap[ev.oid].cooldown, ev.user) + 61

\* C29: an event passes the cooldown gate of a trigger (the trigger fires)
\* only in a step in whose first state the cooldown allows its scope key,
\* and that same step records the firing; so of two events for the same
\* trigger and scope key that are in the matcher together, the firing of one
\* closes the gate for the other.
C29_CheckAndConsumeAtomic ==
    [][(ev'.op = "event" /\ ev'.report = "fired"
        /\ heap[ev'.oid].cooldown # NoCooldown)
       => LET cd == heap[ev'.oid].cooldown
              after == heap'[ev'.oid].cooldown
          IN  /\ Recorded(cd, ev'.user)
                 => now - LastOf(cd, ev'.user) >= cd.time
              /\ Recorded(after, ev'.user)
              /\ LastOf(after, ev'.user) = now
              /\ \A s \in Slots :
                   (/\ cmds'[s].pc = "match"
                    /\ cmds'[s].oid = ev'.oid
                    /\ cmds'[s].user = ev'.user)
                   => ~allow(after, ev'.user)]_vars

\* Of two events of one channel that were in the matcher together, one has
\* fired the trigger and the other is yet to come back from the matcher.
C29_Witness ==
    /\ ev.op = "event"
    /\ ev.report = "fired"
    /\ heap[ev.oid].cooldown # NoCooldown
    /\ \E s \in Slots :
         /\ cmds[s].pc = "match"
         /\ cmds[s].oid = ev.oid
         /\ cmds[s].user = ev.user


(***************************************************************************)
(* Properties of the scope lists in the selector (SpecScope).               *)
(***************************************************************************)
\* C31: the selector never hands a trigger to the matcher for an event whose
\* scope identifier is in the deny list of that trigger, whether or not the
\* identifier is in its allow list as well.
C31_DenyTakesPrecedence ==
    [][\A s \in Slots :
         (cmds[s].pc = "select" /\ cmds'[s].pc = "match")
         => ~In(cmds[s].arg.s, heap[cmds'[s].oid].blacklist)]_vars

\* An event was turned away from a trigger that has the channel of the event
\* in its allow list and in its deny list.
C31_Witness ==
    /\ ev.op = "event"
    /\ ev.report = "denied"
    /\ \E s \in Slots :
         /\ cmds[s].pc = "select"
         /\ cmds[s].oid = ev.oid
         /\ In(cmds[s].arg.s, heap[ev.oid].whitelist)
         /\ In(cmds[s].arg.s, heap[ev.oid].blacklist)


(***************************************************************************)
(* Properties of the dispatcher (SpecDispatch).                             *)
(***************************************************************************)
\* C32: when a multi trigger fires its first pair is attempted next, each
\* attempt reports the outcome of the pair in turn, and after an attempt,
\* failed or not, the next listed pair is attempted until the last one has
\* been: no pair is left out because an earlier one failed.
C32_EveryActionAttempted ==
    [][\A s \in Slots :
         LET c == cmds[s]
             d == cmds'[s]
         IN  /\ (/\ c.pc = "match" /\ d # c /\ ev'.report = "fired"
                 /\ heap[c.oid].multi_payload # << >>)
                => d.pc = "dispatch" /\ d.arg.n = 1
             /\ (c.pc = "dispatch" /\ d # c)
                => LET pairs == heap[c.oid].multi_payload
                   IN  /\ ev'.kind = pairs[c.arg.n][1]
                       /\ ev'.report \in Outcomes
                       /\ IF c.arg.n < Len(pairs)
                          THEN /\ d.pc = "dispatch"
                               /\ d.oid = c.oid
                               /\ d.arg.n = c.arg.n + 1
                          ELSE d.pc = "idle"]_vars

\* The first action of a multi trigger has failed and the second is about
\* to be attempted.
C32_Witness ==
    /\ ev.op = "event"
    /\ ev.report = "failed"
    /\ \E s \in Slots :
         /\ cmds[s].pc = "dispatch"
         /\ cmds[s].oid = ev.oid
         /\ cmds[s].arg.n = 2
         /\ ev.kind = heap[ev.oid].multi_payload[1][1]


(***************************************************************************)
(* Properties of concurrent writes to the store (SpecRace).                 *)
(***************************************************************************)
\* C34: whenever no command is in progress, the durable trigger_list of a
\* server holds a record for every trigger the commands have put in the
\* index of that server: no completed write of a record was dropped by the
\* write of a command that worked on another trigger.
C34_NoWriteLost ==
    (\A s \in Slots : cmds[s].pc = "idle")
    => \A g \in DOMAIN triggers : \A n \in DOMAIN triggers[g] :
         n \in DOMAIN store[g]


(***************************************************************************)
(* Further properties of the settings (SpecSettings).                       *)
(***************************************************************************)
TooLong == 10

\* C35: the persisted and the in-memory match timeout never exceed 10
\* seconds, and no step of a timeout command asked for more than 10 seconds
\* asks for confirmation or changes either of them.
C35_TimeoutAtMostTen ==
    /\ [](config.trigger_timeout <= TooLong /\ trigger_timeout <= TooLong)
    /\ [][\A s \in Slots :
            (cmds'[s].op = "timeout" /\ cmds'[s].arg.n > TooLong)
            => /\ cmds'[s].pc \notin {"ask_timeout", "set_timeout",
                                      "assign_timeout"}
               /\ config' = config
               /\ trigger_timeout' = trigger_timeout]_vars

Me == "me"

RoleNames == {"role1", "role2", "role4", "role9"}

position(role) ==
    CASE role = "role1" -> 1
      [] role = "role2" -> 2
      [] role = "role4" -> 4
      [] role = "role9" -> 9

\* member.top_role, as a position
top_role(u) ==
    CASE u = Me -> 5
      [] u = "mod1" -> 2
      [] u = "mod2" -> 4
      [] OTHER -> 1

\* A mutation of RoleAllowed: the owner test comes first in the loop body.
RoleAllowedOwnerFirst(role, u) ==
    \/ u = GuildOwner
    \/ /\ ~(position(role) >= top_role(Me))
       /\ ~(position(role) >= top_role(u))

\* One pass of the loop body: the role is refused when it is at or above
\* the bot's top role; the server owner skips the second test.
RoleAllowed(role, u) ==
    /\ ~(position(role) >= top_role(Me))
    /\ u = GuildOwner \/ ~(position(role) >= top_role(u))

\* for role in roles: ... return on the first role that is refused
RolesAllowed(roles, u) == \A i \in DOMAIN roles : RoleAllowed(roles[i], u)

\* The role arguments the creation commands are tried with.
RoleLists ==
    {<<r>> : r \in RoleNames} \cup
    {<<"role1", "role2">>, <<"role1", "role9">>, <<"role4", "role1">>}

\* addrole and removerole invoked as text commands with a regex that
\* compiles: the duplicate-name check, the loop over the roles, then the
\* trigger is built with text = role_ids, put into the index, and the
\* command awaits trigger_list().
RoleCreate(s, g, n, u, k, roles) ==
    /\ FreeSlot(s, TRUE)
    /\ ~unloaded
    /\ IF NameTaken(g, n)
       THEN Reply(s, Ev("create", k, "text", g, n, u, Resolve(g, n),
                        "already_exists"))
       ELSE IF ~RolesAllowed(roles, u)
       THEN Reply(s, Ev("create", k, "text", g, n, u, Resolve(g, n),
                        "rejected"))
       ELSE /\ Len(heap) < MaxObjs
            /\ heap' = Append(heap, [NewTrigger(k, n, "foo", u, << >>)
                                       EXCEPT !.text = roles])
            /\ triggers' = IndexPut(triggers, g, n, Len(heap) + 1)
            /\ cmds' = [cmds EXCEPT ![s] =
                          [IdleCmd EXCEPT !.pc = "get", !.op = "create",
                                          !.kind = k, !.path = "text", !.g = g,
                                          !.name = n, !.user = u,
                                          !.oid = Len(heap) + 1]]
            /\ ev' = Ev("create", k, "text", g, n, u, Resolve(g, n), "inserted")
            /\ UNCHANGED <<store, registered, lock>>
    /\ issued' = issued + 1
    /\ UNCHANGED <<saver, re_pool, unloaded, finalFlushes, observe,
                   trigger_timeout, config, now>>

\* edit role invoked as a text command with one role.
RoleEdit(s, g, n, u, role) ==
    /\ FreeSlot(s, TRUE)
    /\ ~unloaded
    /\ LET oid == Resolve(g, n)
           a == Arg(0, role, RoleAllowed(role, u))
           E(rep) == Ev("edit", "role", "text", g, n, u, oid, rep)
       IN  IF IsStr("text", oid)
           THEN Reply(s, E("no_trigger"))
           ELSE LET out == edit_roles(heap[oid], u, a)
                IN  IF out.report # "edited"
                    THEN Reply(s, E(out.report))
                    ELSE /\ heap' = [heap EXCEPT ![oid] = out.t]
                         /\ cmds' = [cmds EXCEPT ![s] =
                                       [IdleCmd EXCEPT !.pc = "ctx",
                                                       !.op = "edit",
                                                       !.kind = "role",
                                                       !.path = "text",
                                                       !.g = g, !.name = n,
                                                       !.user = u, !.arg = a,
                                                       !.oid = oid]]
                         /\ ev' = E("editing")
                         /\ UNCHANGED <<triggers, store, registered, lock>>
    /\ issued' = issued + 1
    /\ UNCHANGED <<saver, re_pool, unloaded, finalFlushes, observe,
                   trigger_timeout, config, now>>

RoleUsers == {GuildOwner, "mod1", "mod2"}

RoleCreateCall(s) ==
    \E g \in RegexGuilds, n \in Names, u \in RoleUsers,
       k \in {"addrole", "removerole"}, roles \in RoleLists :
      RoleCreate(s, g, n, u, k, roles)

RoleEditCall(s) ==
    \E g \in RegexGuilds, n \in Names, u \in RoleUsers, role \in RoleNames :
      RoleEdit(s, g, n, u, role)

CommandRoles(s) ==
    \/ RoleCreateCall(s)
    \/ CmdGet(s)
    \/ CmdSet(s)
    \/ RoleEditCall(s)
    \/ CtxCommit(s)

NextRoles == \E s \in Slots : CommandRoles(s)

SpecRoles == InitCmd /\ [][NextRoles]_vars

IsRoleTrigger(t) ==
    In("add_role", t.response_type) \/ In("remove_role", t.response_type)

\* every role of the list is below the bot's top role and, unless u owns
\* the server, below the top role of u
BelowTopRoles(roles, u) ==
    \A i \in DOMAIN roles :
      /\ position(roles[i]) < top_role(Me)
      /\ u # GuildOwner => position(roles[i]) < top_role(u)

\* the role triggers of the cache and of the store whose role list this
\* step has created or changed hold only roles below the top roles
NewRoleListsBelow(u) ==
    /\ \A o \in DOMAIN heap' :
         (/\ IsRoleTrigger(heap'[o])
          /\ o \in DOMAIN heap => heap[o].text # heap'[o].text)
         => BelowTopRoles(heap'[o].text, u)
    /\ \A g \in Guilds : \A n \in DOMAIN store'[g] :
         (/\ IsRoleTrigger(store'[g][n])
          /\ n \in DOMAIN store[g] => store[g][n].text # store'[g][n].text)
         => BelowTopRoles(store'[g][n].text, u)

\* C37: addrole, removerole and edit role never store a role list that
\* holds a role at or above the bot's top role nor, unless the invoker owns
\* the server, at or above the invoker's top role; a command given a role
\* that fails the test creates and changes nothing.
C37_RolesBelowTopRoles ==
    /\ [][NewRoleListsBelow(ev'.user)]_vars
    /\ [][\A s \in Slots, g \in RegexGuilds, n \in Names, u \in RoleUsers :
            /\ \A k \in {"addrole", "removerole"}, roles \in RoleLists :
                 (RoleCreate(s, g, n, u, k, roles) /\ ~BelowTopRoles(roles, u))
                 => UNCHANGED <<triggers, heap, store>>
            /\ \A role \in RoleNames :
                 (RoleEdit(s, g, n, u, role) /\ ~BelowTopRoles(<<role>>, u))
                 => UNCHANGED <<triggers, heap, store>>]_vars

\* the server owner has stored a list with a role above their own top role,
\* a moderator has been refused, and a role list has been edited
C37_Witness ==
    /\ \E n \in DOMAIN store[1] :
         /\ IsRoleTrigger(store[1][n])
         /\ store[1][n].author = GuildOwner
         /\ In("role4", store[1][n].text)
    /\ ev.report = "rejected"
    /\ ev.user = "mod1"


(***************************************************************************)
(* The confirmation of mock (SpecRegex).                                    *)
(***************************************************************************)
\* this step has put a mock trigger into the cache, the index or the store
MockCreated ==
    \/ \E o \in DOMAIN heap' :
         o \notin DOMAIN heap /\ heap'[o].response_type = <<"mock">>
    \/ \E g \in Guilds : \E n \in DOMAIN store'[g] :
         /\ n \notin DOMAIN store[g]
         /\ store'[g][n].response_type = <<"mock">>

\* C38: mock creates a trigger only after the invoker has answered yes
\* within 15 seconds; on no, or without an answer in that time, index, cache
\* and store stay as they are; after a yes the duplicate-name check and the
\* command-exists check are still applied.
C38_MockOnlyAfterYes ==
    /\ [][MockCreated
          => \/ \E s \in Slots, elapsed \in Elapsed :
                  elapsed < 15 /\ MockAnswer(s, "yes", elapsed)
             \/ ev'.kind = "mock" /\ ev'.report \in {"get", "trigger_set"}]_vars
    /\ [][\A s \in Slots, answer \in {"yes", "no"}, elapsed \in Elapsed :
            (MockAnswer(s, answer, elapsed) /\ (answer = "no" \/ elapsed >= 15))
            => Unchanged /\ ev'.report = "not_creating"]_vars
    /\ [][\A s \in Slots, elapsed \in Elapsed :
            (/\ MockAnswer(s, "yes", elapsed)
             /\ elapsed < 15
             /\ NameTaken(cmds[s].g, cmds[s].name) \/ ~cmds[s].ok)
            => /\ Unchanged
               /\ ev'.report = IF NameTaken(cmds[s].g, cmds[s].name)
                               THEN "already_exists" ELSE "rejected"]_vars
    /\ [][(ev'.kind = "mock" /\ ev'.report = "get")
          => (ev.kind = "mock" /\ ev.report = "inserted")]_vars

\* a confirmed mock command has stored its trigger
C38_Witness ==
    /\ ev.op = "create" /\ ev.kind = "mock" /\ ev.report = "trigger_set"
    /\ store[ev.g][ev.name].response_type = <<"mock">>

=============================================================================
